---- MODULE Spec2Model ----
(***************************************************************************)
(* hexalife: a wealth-based cellular automaton on a hexagonal grid.        *)
(*                                                                         *)
(* The module models src/src/gameLogic.ts (the pure grid functions) and    *)
(* src/src/hooks/useGameOfLife.ts (the React hook that drives them).       *)
(*                                                                         *)
(* Grids are JavaScript arrays: objects with an identity.  A grid is       *)
(* therefore a reference into `heap`, and heap[ref] is its content, a      *)
(* sequence of rows, each a sequence of cells [age, wealth].  Rows and     *)
(* columns are numbered from 0 as in the source; At(cells, row, col)       *)
(* reads cells[row][col].                                                  *)
(***************************************************************************)
EXTENDS Integers, Sequences, FiniteSets, TLC

VARIABLES
    heap,             \* ref -> content of every live CellData[][] array
    grid,             \* gameLogic harness: the grid the next call is given
    call,             \* gameLogic harness: the last call, its arguments and result
    gridState,        \* hook: useState<GridState>
    wealthRules,      \* hook: useState<WealthRules>
    simulationState,  \* hook: useState<SimulationState>
    speed,            \* hook: useState(speed)
    generation,       \* hook: useState(generation)
    intervalRef,      \* hook: useRef<number | null>, the id setInterval returned
    timers,           \* browser: the active interval timers
    storage,          \* browser: localStorage['hexalife-state']
    ops,              \* hook: callbacks and timer ticks run so far
    popup,            \* App: showRules, and the popup's useState(localRules)
    hexGrid           \* HexGrid: isDrawing, drawMode, hoveredCell, lastCellRef

vars == <<heap, grid, call, gridState, wealthRules, simulationState, speed,
          generation, intervalRef, timers, storage, ops, popup, hexGrid>>

logicVars == <<heap, grid, call>>
hookVars == <<gridState, wealthRules, simulationState, speed, generation,
              intervalRef, timers, storage, ops, popup, hexGrid>>

-----------------------------------------------------------------------------
(* Bounds of the model *)

MaxH == 3          \* grid heights 1..MaxH
MaxW == 3          \* grid widths 1..MaxW
MaxCells == 9      \* cells of a grid: height * width <= MaxCells
MaxSteps == 2      \* consecutive computeNextGeneration calls in the harness
MaxPermuted == 4   \* grids of up to this many cells are stepped in every order
MaxOps == 3        \* callbacks and timer ticks in a run of the hook
MaxRun == 12       \* callbacks and timer ticks in a run to extinction
MaxDecline == 4     \* callbacks and timer ticks in a run of the decline
MaxDrag == 5        \* mouse events in a run of drawing
MaxDragCells == 4   \* cells of a grid drawn on: height * width <= MaxDragCells

(* Program constants *)

DEFAULT_STARTING_WEALTH == 10

defaultWealthRules == <<-1, -3, -1, 1, -1, -2, -3>>

\* null: no timer id (setInterval returns positive ids), nothing stored
Null == 0

\* showRules is false: no WealthRulesPopup is mounted
PopupClosed == [open |-> FALSE, localRules |-> <<>>]

\* null, for a state or ref of HexGrid that holds a value (<<value>>) or none
NoValue == <<>>

\* HexGrid as it mounts: useState(false), useState(null), useState(null),
\* useRef(null)
HexGridIdle ==
    [isDrawing |-> FALSE, drawMode |-> NoValue, hoveredCell |-> NoValue,
     lastCell |-> NoValue]

-----------------------------------------------------------------------------
(* Cell model and constructors: gameLogic.ts *)

createEmptyCell == [age |-> 0, wealth |-> 0]

createAliveCell(startingWealth) == [age |-> 1, wealth |-> startingWealth]

createEmptyGrid(width, height) ==
    [r \in 1..height |-> [c \in 1..width |-> createEmptyCell]]

isAlive(cell) == cell.age > 0

\* grid[row][col], rows and columns from 0
At(cells, row, col) == cells[row + 1][col + 1]

\* grid[row][col] = cell, on a fresh grid under construction
Put(cells, row, col, cell) == [cells EXCEPT ![row + 1][col + 1] = cell]

GridHeight(cells) == Len(cells)                  \* grid.length
GridWidth(cells) == Len(cells[1])                \* grid[0].length

\* JavaScript's %: the result takes the sign of the dividend
JsRem(a, b) == IF a >= 0 THEN a % b ELSE -((-a) % b)

-----------------------------------------------------------------------------
(* Hex topology: gameLogic.ts *)

\* mutant: the last odd-row offset mistyped as [1, -1]
getHexNeighborOffsets_TypoOdd(isOddRow) ==
    IF isOddRow
    THEN << <<-1, 0>>, <<-1, 1>>, <<0, -1>>, <<0, 1>>, <<1, 0>>, <<1, -1>> >>
    ELSE << <<-1, -1>>, <<-1, 0>>, <<0, -1>>, <<0, 1>>, <<1, -1>>, <<1, 0>> >>

\* mutant: the even-row table is returned for odd rows too
getHexNeighborOffsets_EvenTableOnly(isOddRow) ==
    << <<-1, -1>>, <<-1, 0>>, <<0, -1>>, <<0, 1>>, <<1, -1>>, <<1, 0>> >>

getHexNeighborOffsets(isOddRow) ==
    IF isOddRow
    THEN << <<-1, 0>>, <<-1, 1>>, <<0, -1>>, <<0, 1>>, <<1, 0>>, <<1, 1>> >>
    ELSE << <<-1, -1>>, <<-1, 0>>, <<0, -1>>, <<0, 1>>, <<1, -1>>, <<1, 0>> >>

InBounds(newRow, newCol, height, width) ==
    newRow >= 0 /\ newRow < height /\ newCol >= 0 /\ newCol < width

\* the for-loop of getNeighborCount from the i-th offset on
RECURSIVE CountLoop(_, _, _, _, _, _)
CountLoop(cells, row, col, neighbors, i, count) ==
    IF i > Len(neighbors) THEN count
    ELSE LET newRow == row + neighbors[i][1]
             newCol == col + neighbors[i][2]
             hit == /\ InBounds(newRow, newCol, GridHeight(cells), GridWidth(cells))
                    /\ At(cells, newRow, newCol).age > 0
         IN CountLoop(cells, row, col, neighbors, i + 1,
                      IF hit THEN count + 1 ELSE count)

\* mutant: the cell itself is counted with its neighbours
getNeighborCount_CountsSelf(cells, row, col) ==
    CountLoop(cells, row, col, getHexNeighborOffsets(JsRem(row, 2) = 1), 1,
              IF At(cells, row, col).age > 0 THEN 1 ELSE 0)

\* mutant: the even-row offsets are used for every row
getNeighborCount_IgnoresParity(cells, row, col) ==
    CountLoop(cells, row, col, getHexNeighborOffsets(FALSE), 1, 0)

getNeighborCount(cells, row, col) ==
    CountLoop(cells, row, col, getHexNeighborOffsets(JsRem(row, 2) = 1), 1, 0)

\* the for-loop of getNeighborPositions from the i-th offset on
RECURSIVE PositionsLoop(_, _, _, _, _, _, _)
PositionsLoop(row, col, height, width, offsets, i, positions) ==
    IF i > Len(offsets) THEN positions
    ELSE LET newRow == row + offsets[i][1]
             newCol == col + offsets[i][2]
         IN PositionsLoop(row, col, height, width, offsets, i + 1,
                IF InBounds(newRow, newCol, height, width)
                THEN Append(positions, [row |-> newRow, col |-> newCol])
                ELSE positions)

\* mutant: the columns are not checked against the width
getNeighborPositions_NoColumnCheck(row, col, height, width) ==
    PositionsLoop(row, col, height, col + 2,
                  getHexNeighborOffsets(JsRem(row, 2) = 1), 1, <<>>)

getNeighborPositions(row, col, height, width) ==
    PositionsLoop(row, col, height, width,
                  getHexNeighborOffsets(JsRem(row, 2) = 1), 1, <<>>)

-----------------------------------------------------------------------------
(* Transition engine: gameLogic.ts *)

\* mutant: a missing entry counts as +1
RuleAt_MissingIsOne(rules, neighborCount) ==
    IF neighborCount + 1 \in DOMAIN rules THEN rules[neighborCount + 1] ELSE 1

\* wealthRules[neighborCount] ?? 0
RuleAt(rules, neighborCount) ==
    IF neighborCount + 1 \in DOMAIN rules THEN rules[neighborCount + 1] ELSE 0

\* mutant: a cell whose wealth reaches exactly 0 survives
LoopBody_SurvivesAtZero(cells, newGrid, row, col, rules, startingWealth) ==
    LET neighborCount == getNeighborCount(cells, row, col)
        currentCell == At(cells, row, col)
        wealthChange == RuleAt(rules, neighborCount)
        newWealth == currentCell.wealth + wealthChange
    IN IF currentCell.age > 0
       THEN IF newWealth >= 0
            THEN Put(newGrid, row, col,
                     [age |-> currentCell.age + 1, wealth |-> newWealth])
            ELSE Put(newGrid, row, col, createEmptyCell)
       ELSE IF wealthChange > 0
            THEN Put(newGrid, row, col, [age |-> 1, wealth |-> startingWealth])
            ELSE Put(newGrid, row, col, createEmptyCell)

\* mutant: a born cell starts with the rule's delta as its wealth
LoopBody_BirthWealthFromDelta(cells, newGrid, row, col, rules, startingWealth) ==
    LET neighborCount == getNeighborCount(cells, row, col)
        currentCell == At(cells, row, col)
        wealthChange == RuleAt(rules, neighborCount)
        newWealth == currentCell.wealth + wealthChange
    IN IF currentCell.age > 0
       THEN IF newWealth > 0
            THEN Put(newGrid, row, col,
                     [age |-> currentCell.age + 1, wealth |-> newWealth])
            ELSE Put(newGrid, row, col, createEmptyCell)
       ELSE IF wealthChange > 0
            THEN Put(newGrid, row, col, [age |-> 1, wealth |-> wealthChange])
            ELSE Put(newGrid, row, col, createEmptyCell)

\* mutant: the neighbours are counted in the grid under construction
LoopBody_ReadsNewGrid(cells, newGrid, row, col, rules, startingWealth) ==
    LET neighborCount == getNeighborCount(newGrid, row, col)
        currentCell == At(cells, row, col)
        wealthChange == RuleAt(rules, neighborCount)
        newWealth == currentCell.wealth + wealthChange
    IN IF currentCell.age > 0
       THEN IF newWealth > 0
            THEN Put(newGrid, row, col,
                     [age |-> currentCell.age + 1, wealth |-> newWealth])
            ELSE Put(newGrid, row, col, createEmptyCell)
       ELSE IF wealthChange > 0
            THEN Put(newGrid, row, col, [age |-> 1, wealth |-> startingWealth])
            ELSE Put(newGrid, row, col, createEmptyCell)

\* the body of the double loop: reads the input grid, writes newGrid[row][col]
\* mutant: a surviving cell keeps its age
LoopBody_AgeNotCounted(cells, newGrid, row, col, rules, startingWealth) ==
    LET neighborCount == getNeighborCount(cells, row, col)
        currentCell == At(cells, row, col)
        isCurrentlyAlive == currentCell.age > 0
        wealthChange == RuleAt(rules, neighborCount)
        newWealth == currentCell.wealth + wealthChange
    IN IF isCurrentlyAlive
       THEN IF newWealth > 0
            THEN Put(newGrid, row, col,
                     [age |-> currentCell.age, wealth |-> newWealth])
            ELSE Put(newGrid, row, col, createEmptyCell)
       ELSE IF wealthChange > 0
            THEN Put(newGrid, row, col, [age |-> 1, wealth |-> startingWealth])
            ELSE Put(newGrid, row, col, createEmptyCell)

\* mutant: a dead cell is born when the delta is not negative
LoopBody_BornAtZero(cells, newGrid, row, col, rules, startingWealth) ==
    LET neighborCount == getNeighborCount(cells, row, col)
        currentCell == At(cells, row, col)
        wealthChange == RuleAt(rules, neighborCount)
        newWealth == currentCell.wealth + wealthChange
    IN IF currentCell.age > 0
       THEN IF newWealth > 0
            THEN Put(newGrid, row, col,
                     [age |-> currentCell.age + 1, wealth |-> newWealth])
            ELSE Put(newGrid, row, col, createEmptyCell)
       ELSE IF wealthChange >= 0
            THEN Put(newGrid, row, col, [age |-> 1, wealth |-> startingWealth])
            ELSE Put(newGrid, row, col, createEmptyCell)

\* mutant: a cell without a live neighbour is charged nothing
LoopBody_LoneCellNotCharged(cells, newGrid, row, col, rules, startingWealth) ==
    LET neighborCount == getNeighborCount(cells, row, col)
        currentCell == At(cells, row, col)
        wealthChange == IF neighborCount = 0 THEN 0 ELSE RuleAt(rules, neighborCount)
        newWealth == currentCell.wealth + wealthChange
    IN IF currentCell.age > 0
       THEN IF newWealth > 0
            THEN Put(newGrid, row, col,
                     [age |-> currentCell.age + 1, wealth |-> newWealth])
            ELSE Put(newGrid, row, col, createEmptyCell)
       ELSE IF wealthChange > 0
            THEN Put(newGrid, row, col, [age |-> 1, wealth |-> startingWealth])
            ELSE Put(newGrid, row, col, createEmptyCell)

LoopBody(cells, newGrid, row, col, rules, startingWealth) ==
    LET neighborCount == getNeighborCount(cells, row, col)
        currentCell == At(cells, row, col)
        isCurrentlyAlive == currentCell.age > 0
        wealthChange == RuleAt(rules, neighborCount)
        newWealth == currentCell.wealth + wealthChange
    IN IF isCurrentlyAlive
       THEN IF newWealth > 0
            THEN Put(newGrid, row, col,
                     [age |-> currentCell.age + 1, wealth |-> newWealth])
            ELSE Put(newGrid, row, col, createEmptyCell)
       ELSE IF wealthChange > 0
            THEN Put(newGrid, row, col, [age |-> 1, wealth |-> startingWealth])
            ELSE Put(newGrid, row, col, createEmptyCell)

\* the positions in the order the double loop visits them
RowMajor(height, width) ==
    [k \in 1..(height * width) |-> <<(k - 1) \div width, (k - 1) % width>>]

\* the loop over the positions of `order`, from the i-th on
RECURSIVE GenerationLoop(_, _, _, _, _, _)
GenerationLoop(cells, newGrid, rules, startingWealth, order, i) ==
    IF i > Len(order) THEN newGrid
    ELSE GenerationLoop(cells,
            LoopBody(cells, newGrid, order[i][1], order[i][2], rules, startingWealth),
            rules, startingWealth, order, i + 1)

\* mutant: createEmptyGrid is given height and width in the wrong order
computeNextGenerationCells_SwappedSize(cells, rules, startingWealth) ==
    LET height == GridHeight(cells)
        width == GridWidth(cells)
    IN GenerationLoop(cells, createEmptyGrid(height, width), rules, startingWealth,
                      RowMajor(height, width), 1)

\* the cells of a finished newGrid, as computeNextGeneration builds them
computeNextGenerationCells(cells, rules, startingWealth) ==
    LET height == GridHeight(cells)
        width == GridWidth(cells)
    IN GenerationLoop(cells, createEmptyGrid(width, height), rules, startingWealth,
                      RowMajor(height, width), 1)

-----------------------------------------------------------------------------
(* References.  A call that builds a grid allocates a fresh array; the     *)
(* result of a call is the heap after it and the reference it returns.     *)

Alloc(h) == CHOOSE r \in 1..(Cardinality(DOMAIN h) + 1) : r \notin DOMAIN h

\* a fresh array holding `cells`
New(h, cells) == [heap |-> h @@ (Alloc(h) :> cells), ret |-> Alloc(h)]

\* the heap without the arrays nothing refers to any more
Keep(h, live) == [r \in (DOMAIN h) \cap live |-> h[r]]

computeNextGeneration(h, g, rules, startingWealth) ==
    New(h, computeNextGenerationCells(h[g], rules, startingWealth))

-----------------------------------------------------------------------------
(* Grid editing operations: gameLogic.ts *)

\* mutant: a shallow copy [...grid], so the write lands in a row of the input
toggleCell_SharesRows(h, g, row, col, startingWealth) ==
    LET written == IF At(h[g], row, col).age > 0
                   THEN Put(h[g], row, col, createEmptyCell)
                   ELSE Put(h[g], row, col, createAliveCell(startingWealth))
    IN New([h EXCEPT ![g] = written], written)

\* mutant: a killed cell keeps its wealth
toggleCell_KeepsWealth(h, g, row, col, startingWealth) ==
    LET newGrid == h[g]
        currentCell == At(newGrid, row, col)
    IN IF currentCell.age > 0
       THEN New(h, Put(newGrid, row, col, [currentCell EXCEPT !.age = 0]))
       ELSE New(h, Put(newGrid, row, col, createAliveCell(startingWealth)))

\* mutant: a live cell is left as it is, only dead cells are toggled
toggleCell_OnlyBringsToLife(h, g, row, col, startingWealth) ==
    LET newGrid == h[g]
        currentCell == At(newGrid, row, col)
    IN IF currentCell.age > 0
       THEN New(h, newGrid)
       ELSE New(h, Put(newGrid, row, col, createAliveCell(startingWealth)))

toggleCell(h, g, row, col, startingWealth) ==
    LET newGrid == h[g]             \* grid.map(r => r.map(c => ({ ...c })))
        currentCell == At(newGrid, row, col)
    IN IF currentCell.age > 0
       THEN New(h, Put(newGrid, row, col, createEmptyCell))
       ELSE New(h, Put(newGrid, row, col, createAliveCell(startingWealth)))

\* mutant: no early return, the grid is copied even when nothing changes
setCell_AlwaysCopies(h, g, row, col, value, startingWealth) ==
    New(h, Put(h[g], row, col,
               IF value THEN createAliveCell(startingWealth) ELSE createEmptyCell))

setCell(h, g, row, col, value, startingWealth) ==
    LET currentAlive == At(h[g], row, col).age > 0
        newGrid == h[g]             \* grid.map(r => r.map(c => ({ ...c })))
    IN IF currentAlive = value
       THEN [heap |-> h, ret |-> g]
       ELSE New(h, Put(newGrid, row, col,
                       IF value THEN createAliveCell(startingWealth)
                                ELSE createEmptyCell))

Min(a, b) == IF a < b THEN a ELSE b

Max(a, b) == IF a < b THEN b ELSE a

\* mutant: the column loop runs to oldWidth, so when the grid gets narrower
\* the copied rows are written past newWidth and grow to oldWidth
resizeGridCells_ColumnsToOldWidth(cells, newWidth, newHeight) ==
    LET oldHeight == GridHeight(cells)
        oldWidth == IF oldHeight > 0 THEN GridWidth(cells) ELSE 0
    IN [r \in 1..newHeight |->
          [c \in 1..(IF r - 1 < Min(oldHeight, newHeight)
                     THEN Max(oldWidth, newWidth) ELSE newWidth) |->
              IF r - 1 < Min(oldHeight, newHeight) /\ c - 1 < oldWidth
              THEN cells[r][c]
              ELSE createEmptyCell]]

\* the copy loop of resizeGrid, over the overlap in row-major order
resizeGridCells(cells, newWidth, newHeight) ==
    LET oldHeight == GridHeight(cells)
        oldWidth == IF oldHeight > 0 THEN GridWidth(cells) ELSE 0
    IN [r \in 1..newHeight |->
          [c \in 1..newWidth |->
              IF r - 1 < Min(oldHeight, newHeight) /\ c - 1 < Min(oldWidth, newWidth)
              THEN cells[r][c]
              ELSE createEmptyCell]]

\* mutant: the grid itself is returned when the size does not change
resizeGrid_SameSizeReturnsInput(h, g, newWidth, newHeight) ==
    IF newHeight = GridHeight(h[g]) /\ newWidth = GridWidth(h[g])
    THEN [heap |-> h, ret |-> g]
    ELSE New(h, resizeGridCells(h[g], newWidth, newHeight))

resizeGrid(h, g, newWidth, newHeight) ==
    New(h, resizeGridCells(h[g], newWidth, newHeight))

\* randomFn is a source of draws; draws[k] is the k-th value it returns.
\* Densities and draws are in tenths: 3 stands for 0.3, draws are 0..9.
\* The two nested maps visit the positions in row-major order and call
\* randomFn once at each; k counts the calls made so far.
RECURSIVE RandomizeLoop(_, _, _, _, _, _, _)
RandomizeLoop(width, height, density, startingWealth, draws, k, acc) ==
    IF k = width * height
    THEN [cells |-> acc, calls |-> k]
    ELSE LET row == k \div width
             col == k % width
             cell == IF draws[k + 1] < density
                     THEN createAliveCell(startingWealth)
                     ELSE createEmptyCell
         IN RandomizeLoop(width, height, density, startingWealth, draws, k + 1,
                          Put(acc, row, col, cell))

\* mutant: a draw equal to the density also gives a live cell (<= for <)
randomizeGridCells_AtMostDensity(width, height, density, startingWealth, draws) ==
    [r \in 1..height |->
        [c \in 1..width |->
            IF draws[(r - 1) * width + c] <= density
            THEN createAliveCell(startingWealth)
            ELSE createEmptyCell]]

randomizeGridCells(width, height, density, startingWealth, draws) ==
    RandomizeLoop(width, height, density, startingWealth, draws, 0,
                  createEmptyGrid(width, height)).cells

\* the calls of randomFn one randomizeGrid makes
randomizeGridCalls(width, height, density, startingWealth, draws) ==
    RandomizeLoop(width, height, density, startingWealth, draws, 0,
                  createEmptyGrid(width, height)).calls

randomizeGrid(h, width, height, density, startingWealth, draws) ==
    New(h, randomizeGridCells(width, height, density, startingWealth, draws))

-----------------------------------------------------------------------------
(* Input sets *)

Heights == 1..MaxH
Widths == 1..MaxW

Positions(height, width) == (0..(height - 1)) \X (0..(width - 1))

\* rule tables of the tests
RuleTables ==
    { defaultWealthRules,
      <<5, 0, 0, 0, 0, 0, 0>>,
      <<-5, -3, 5, 3, -1, -2, -3>> }

StartingWealths == {DEFAULT_STARTING_WEALTH, 4}

\* an aged cell, as the tests place one
oldCell == [age |-> 5, wealth |-> 3]

\* the live cells an input grid is drawn with: all fresh, or all aged
AliveKinds == {createAliveCell(DEFAULT_STARTING_WEALTH), oldCell}

\* the grid of the given size whose live cells are `live`, each an `alive`
MakeGrid(height, width, live, alive) ==
    [r \in 1..height |->
        [c \in 1..width |->
            IF <<r - 1, c - 1>> \in live THEN alive ELSE createEmptyCell]]

\* the sizes a grid may have
Dims == {d \in Heights \X Widths : d[1] * d[2] <= MaxCells}

\* every live pattern on every size
InputGridsOf(h, w) ==
    { MakeGrid(h, w, live, alive) :
        live \in SUBSET Positions(h, w), alive \in AliveKinds }

InputGrids == UNION { InputGridsOf(d[1], d[2]) : d \in Dims }

-----------------------------------------------------------------------------
(* The gameLogic harness: a grid is drawn, and the functions of            *)
(* gameLogic.ts are called on it as the tests call them.  `call` records   *)
(* the last call: the function, the grid it was given and that grid's      *)
(* content before the call, the arguments, and what was returned.          *)

NoCall ==
    [fn |-> "none", grid |-> 0, before |-> <<>>, row |-> 0, col |-> 0,
     value |-> FALSE, width |-> 0, height |-> 0, rules |-> <<>>,
     startingWealth |-> 0, steps |-> 0, ret |-> 0, prev |-> 0,
     density |-> 0, draws |-> <<>>, calls |-> 0, stored |-> 0,
     index |-> 0, slider |-> 0, localRules |-> <<>>, visited |-> {}]

\* the initial state of the hook's variables when only gameLogic.ts is exercised
HookIdle ==
    /\ gridState = [id |-> 0, cells |-> 0, width |-> 0, height |-> 0]
    /\ wealthRules = defaultWealthRules
    /\ simulationState = "stopped"
    /\ speed = 0
    /\ generation = 0
    /\ intervalRef = Null
    /\ timers = {}
    /\ storage = Null
    /\ ops = 0
    /\ popup = PopupClosed
    /\ hexGrid = HexGridIdle

\* the harness holds a grid no function has been called on yet
HarnessFresh == grid # 0 /\ call.fn = "none"

InitLogic ==
    /\ \E cells \in InputGrids : heap = (1 :> cells)
    /\ grid = 1
    /\ call = NoCall
    /\ HookIdle

\* grid = computeNextGeneration(grid, rules, startingWealth), repeated with
\* the same rules up to MaxSteps times; call.height and call.width keep the
\* size of the grid the steps started from
CallComputeNextGeneration ==
    /\ grid # 0
    /\ \E rules \in RuleTables, sw \in StartingWealths :
        /\ \/ call.fn = "none"
           \/ /\ call.fn = "computeNextGeneration"
              /\ call.steps < MaxSteps
              /\ call.rules = rules
              /\ call.startingWealth = sw
        /\ LET r == computeNextGeneration(heap, grid, rules, sw)
           IN /\ heap' = Keep(r.heap, {grid, r.ret})
              /\ grid' = r.ret
              /\ call' = [NoCall EXCEPT !.fn = "computeNextGeneration",
                            !.grid = grid, !.before = heap[grid],
                            !.rules = rules, !.startingWealth = sw,
                            !.steps = call.steps + 1,
                            !.height = IF call.fn = "none"
                                       THEN GridHeight(heap[grid]) ELSE call.height,
                            !.width = IF call.fn = "none"
                                      THEN GridWidth(heap[grid]) ELSE call.width,
                            !.ret = r.ret]
        /\ UNCHANGED hookVars

CallToggleCell ==
    /\ HarnessFresh
    /\ \E pos \in Positions(GridHeight(heap[grid]), GridWidth(heap[grid])),
          sw \in StartingWealths :
        /\ LET r == toggleCell(heap, grid, pos[1], pos[2], sw)
           IN /\ heap' = Keep(r.heap, {grid, r.ret})
              /\ call' = [NoCall EXCEPT !.fn = "toggleCell",
                            !.grid = grid, !.before = heap[grid],
                            !.row = pos[1], !.col = pos[2],
                            !.startingWealth = sw, !.ret = r.ret]
        /\ UNCHANGED <<grid, hookVars>>

CallSetCell ==
    /\ HarnessFresh
    /\ \E pos \in Positions(GridHeight(heap[grid]), GridWidth(heap[grid])),
          value \in BOOLEAN, sw \in StartingWealths :
        /\ LET r == setCell(heap, grid, pos[1], pos[2], value, sw)
           IN /\ heap' = Keep(r.heap, {grid, r.ret})
              /\ call' = [NoCall EXCEPT !.fn = "setCell",
                            !.grid = grid, !.before = heap[grid],
                            !.row = pos[1], !.col = pos[2], !.value = value,
                            !.startingWealth = sw, !.ret = r.ret]
        /\ UNCHANGED <<grid, hookVars>>

CallResizeGrid ==
    /\ HarnessFresh
    /\ \E d \in Dims :
        /\ LET r == resizeGrid(heap, grid, d[2], d[1])
           IN /\ heap' = Keep(r.heap, {grid, r.ret})
              /\ call' = [NoCall EXCEPT !.fn = "resizeGrid",
                            !.grid = grid, !.before = heap[grid],
                            !.width = d[2], !.height = d[1],
                            !.ret = r.ret]
        /\ UNCHANGED <<grid, hookVars>>

CallGetNeighborCount ==
    /\ HarnessFresh
    /\ \E pos \in Positions(GridHeight(heap[grid]), GridWidth(heap[grid])) :
        /\ call' = [NoCall EXCEPT !.fn = "getNeighborCount",
                      !.grid = grid, !.before = heap[grid],
                      !.row = pos[1], !.col = pos[2],
                      !.ret = getNeighborCount(heap[grid], pos[1], pos[2])]
        /\ UNCHANGED <<heap, grid, hookVars>>

\* getNeighborPositions(row, col, grid.length, grid[0].length)
CallGetNeighborPositions ==
    /\ HarnessFresh
    /\ \E pos \in Positions(GridHeight(heap[grid]), GridWidth(heap[grid])) :
        /\ call' = [NoCall EXCEPT !.fn = "getNeighborPositions",
                      !.grid = grid, !.before = heap[grid],
                      !.row = pos[1], !.col = pos[2],
                      !.height = GridHeight(heap[grid]),
                      !.width = GridWidth(heap[grid]),
                      !.ret = getNeighborPositions(pos[1], pos[2],
                                  GridHeight(heap[grid]), GridWidth(heap[grid]))]
        /\ UNCHANGED <<heap, grid, hookVars>>

CallGetHexNeighborOffsets ==
    /\ HarnessFresh
    /\ \E isOddRow \in BOOLEAN :
        /\ call' = [NoCall EXCEPT !.fn = "getHexNeighborOffsets",
                      !.grid = grid, !.before = heap[grid],
                      !.value = isOddRow,
                      !.ret = getHexNeighborOffsets(isOddRow)]
        /\ UNCHANGED <<heap, grid, hookVars>>

\* randomFn as the tests mock it, in tenths: a source repeats a short run
RandomSources == {<<0>>, <<9>>, <<3>>, <<0, 9>>, <<2, 3>>, <<3, 0, 9>>}

RandomDraws(source, n) == [k \in 1..n |-> source[((k - 1) % Len(source)) + 1]]

RandomDensities == {0, 3, 10}

\* randomizeGrid(width, height, density, startingWealth, randomFn) with the
\* size of the harness's grid, called while that grid is empty
CallRandomizeGrid ==
    /\ HarnessFresh
    /\ \A p \in Positions(GridHeight(heap[grid]), GridWidth(heap[grid])) :
          At(heap[grid], p[1], p[2]).age = 0
    /\ \E density \in RandomDensities, sw \in StartingWealths,
          source \in RandomSources :
        LET height == GridHeight(heap[grid])
            width == GridWidth(heap[grid])
            draws == RandomDraws(source, width * height)
            r == randomizeGrid(heap, width, height, density, sw, draws)
        IN /\ heap' = Keep(r.heap, {grid, r.ret})
           /\ call' = [NoCall EXCEPT !.fn = "randomizeGrid",
                         !.grid = grid, !.before = heap[grid],
                         !.width = width, !.height = height,
                         !.density = density, !.startingWealth = sw,
                         !.draws = draws,
                         !.calls = randomizeGridCalls(width, height, density,
                                                      sw, draws),
                         !.ret = r.ret]
    /\ UNCHANGED <<grid, hookVars>>

NextLogic ==
    \/ CallRandomizeGrid
    \/ CallComputeNextGeneration
    \/ CallToggleCell
    \/ CallSetCell
    \/ CallResizeGrid
    \/ CallGetNeighborCount
    \/ CallGetNeighborPositions
    \/ CallGetHexNeighborOffsets

SpecLogic == InitLogic /\ [][NextLogic]_vars

-----------------------------------------------------------------------------
(* The hook: hooks/useGameOfLife.ts                                        *)
(*                                                                         *)
(* gridState is a state object {cells, width, height}; its id tells one    *)
(* object from the next (React compares state objects by identity), and    *)
(* its cells are a reference into heap.  Each action is one callback, or   *)
(* one tick of the interval timer, together with the render it causes and  *)
(* the effects that run after that render.  In the hook's runs `call`      *)
(* records the last callback: its name ("hook.step", ...), its arguments,  *)
(* the cells array it found and that array's content, the cells array it   *)
(* left, and in call.prev the hook's state before it.                      *)

DefaultSpeed == 200

initialWidth == MaxW
initialHeight == MaxH

Speeds == {DefaultSpeed, 50}

\* Math.random, in tenths: a source repeats a short run of draws
DrawSources == {<<0>>, <<9>>, <<0, 9>>, <<9, 0>>}
Draws(source, n) == [k \in 1..n |-> source[((k - 1) % Len(source)) + 1]]

\* densities in tenths: 0, the default 0.3, and 1
DefaultDensity == 3
Densities == {0, DefaultDensity, 10}

\* what JSON.stringify({ gridState, wealthRules, speed }) keeps of the state
StoredState(gs, cells, rules, sp) ==
    [gridState |-> [cells |-> cells, width |-> gs.width, height |-> gs.height],
     wealthRules |-> rules, speed |-> sp]

(* JSON.  A JSON value carries its type, as typeof and Array.isArray see   *)
(* it: [type |-> "number", num |-> 3], [type |-> "array", items |-> <<..>>],*)
(* [type |-> "object", fields |-> [name |-> value, ..]].  localStorage      *)
(* holds the value its text denotes, NoItem when the key is not set, and    *)
(* InvalidJson for a text JSON.parse throws on.                             *)
JUndefined == [type |-> "undefined"]
JNull == [type |-> "null"]
JNumber(n) == [type |-> "number", num |-> n]
JString(str) == [type |-> "string", str |-> str]
JArray(items) == [type |-> "array", items |-> items]
JObject(fields) == [type |-> "object", fields |-> fields]

NoItem == [type |-> "none"]
InvalidJson == [type |-> "invalid json"]

\* JSON.stringify of a cell, of the cells, of { gridState, wealthRules, speed }
CellToJson(cell) ==
    JObject([age |-> JNumber(cell.age), wealth |-> JNumber(cell.wealth)])

CellsToJson(cells) ==
    JArray([r \in 1..Len(cells) |->
               JArray([c \in 1..Len(cells[r]) |-> CellToJson(cells[r][c])])])

JSONstringify(state) ==
    JObject([gridState |->
                JObject([cells |-> CellsToJson(state.gridState.cells),
                         width |-> JNumber(state.gridState.width),
                         height |-> JNumber(state.gridState.height)]),
             wealthRules |->
                JArray([i \in 1..Len(state.wealthRules) |->
                           JNumber(state.wealthRules[i])]),
             speed |-> JNumber(state.speed)])

\* the JavaScript value of a parsed JSON value
RECURSIVE JsValue(_)
JsValue(json) ==
    CASE json.type = "number" -> json.num
      [] json.type = "string" -> json.str
      [] json.type = "array" ->
            [i \in 1..Len(json.items) |-> JsValue(json.items[i])]
      [] json.type = "object" ->
            [name \in DOMAIN json.fields |-> JsValue(json.fields[name])]
      [] OTHER -> json

\* value.name of an object; undefined when it has no such property
Get(value, name) ==
    IF value.type = "object" /\ name \in DOMAIN value.fields
    THEN value.fields[name]
    ELSE JUndefined

\* value?.name
OptGet(value, name) ==
    IF value.type \in {"undefined", "null"} THEN JUndefined ELSE Get(value, name)

\* value?.[i] of an array; undefined past its end
OptIndex(value, i) ==
    IF value.type = "array" /\ i + 1 \in DOMAIN value.items
    THEN value.items[i + 1]
    ELSE JUndefined

Truthy(value) ==
    CASE value.type \in {"undefined", "null"} -> FALSE
      [] value.type = "number" -> value.num # 0
      [] value.type = "string" -> value.str # ""
      [] OTHER -> TRUE

\* 'name' in value, of a value that is an object or an array
HasProperty(name, value) ==
    value.type = "object" /\ name \in DOMAIN value.fields

\* mutant: the length of wealthRules is not looked at
Validates_AnyRulesLength(parsed) ==
    LET gs == Get(parsed, "gridState")
        cells == OptGet(gs, "cells")
        firstCell == OptIndex(OptIndex(cells, 0), 0)
    IN /\ Truthy(cells)
       /\ cells.type = "array"
       /\ Get(gs, "width").type = "number"
       /\ Get(gs, "height").type = "number"
       /\ Get(parsed, "wealthRules").type = "array"
       /\ Truthy(firstCell)
       /\ firstCell.type \in {"object", "array"}
       /\ HasProperty("age", firstCell)
       /\ HasProperty("wealth", firstCell)

\* the two nested ifs of loadFromStorage
Validates(parsed) ==
    LET gs == Get(parsed, "gridState")
        cells == OptGet(gs, "cells")
        firstCell == OptIndex(OptIndex(cells, 0), 0)
    IN /\ Truthy(cells)
       /\ cells.type = "array"
       /\ Get(gs, "width").type = "number"
       /\ Get(gs, "height").type = "number"
       /\ Get(parsed, "wealthRules").type = "array"
       /\ Len(Get(parsed, "wealthRules").items) = 7
       /\ Truthy(firstCell)
       /\ firstCell.type \in {"object", "array"}
       /\ HasProperty("age", firstCell)
       /\ HasProperty("wealth", firstCell)

\* the stored record, or null: nothing stored, a text that does not parse,
\* the text "null" (parsed.gridState throws, the catch returns null), or a
\* value that fails the validation
loadFromStorage(item) ==
    IF item.type \in {"none", "invalid json", "null"}
    THEN JNull
    ELSE IF Validates(item) THEN item ELSE JNull

\* a record of the StoredState interface whose gridState is what the engine
\* builds: height rows of width cells, each { age: number, wealth: number },
\* beside seven numeric wealth rules
WellFormedRecord(item) ==
    LET gs == Get(item, "gridState")
        cells == Get(gs, "cells")
        rules == Get(item, "wealthRules")
    IN /\ Get(gs, "width").type = "number"
       /\ Get(gs, "height").type = "number"
       /\ cells.type = "array"
       /\ Len(cells.items) = Get(gs, "height").num
       /\ \A r \in 1..Len(cells.items) :
             /\ cells.items[r].type = "array"
             /\ Len(cells.items[r].items) = Get(gs, "width").num
             /\ \A c \in 1..Len(cells.items[r].items) :
                   /\ Get(cells.items[r].items[c], "age").type = "number"
                   /\ Get(cells.items[r].items[c], "wealth").type = "number"
       /\ rules.type = "array"
       /\ Len(rules.items) = 7
       /\ \A i \in 1..Len(rules.items) : rules.items[i].type = "number"

\* a state object other than gs
FreshState(gs, cellsRef, width, height) ==
    [id |-> 1 - gs.id, cells |-> cellsRef, width |-> width, height |-> height]

HookSnapshot ==
    [gridState |-> gridState, wealthRules |-> wealthRules,
     simulationState |-> simulationState, speed |-> speed,
     generation |-> generation]

\* the id setInterval returns: one no active timer has
FreshTimer(ts) == CHOOSE i \in 1..(Cardinality(ts) + 1) : \A t \in ts : t.id # i

\* the save effect, deps [gridState, wealthRules, speed]
SaveEffect(gs, cells, rules, rulesSet, sp) ==
    storage' = IF gs # gridState \/ rulesSet \/ sp # speed
               THEN JSONstringify(StoredState(gs, cells, rules, sp))
               ELSE storage

\* mutant: the effect returns no cleanup, so a re-run while playing starts a
\* timer beside the one already running
LoopEffect_NoCleanup(sim, rules, rulesSet, sp) ==
    IF sim # simulationState \/ sp # speed \/ rulesSet
    THEN IF sim = "playing"
         THEN /\ intervalRef' = FreshTimer(timers)
              /\ timers' = timers \cup
                     {[id |-> FreshTimer(timers), rules |-> rules, delay |-> sp]}
         ELSE IF intervalRef # Null
              THEN /\ timers' = {t \in timers : t.id # intervalRef}
                   /\ intervalRef' = Null
              ELSE /\ timers' = timers
                   /\ intervalRef' = intervalRef
    ELSE UNCHANGED <<intervalRef, timers>>

\* mutant: the timer is cleared only to be replaced; leaving 'playing' forgets
\* it without clearing it
LoopEffect_KeepsTimerOnPause(sim, rules, rulesSet, sp) ==
    IF sim # simulationState \/ sp # speed \/ rulesSet
    THEN IF sim = "playing"
         THEN LET cleaned == {t \in timers : t.id # intervalRef}
              IN /\ intervalRef' = FreshTimer(cleaned)
                 /\ timers' = cleaned \cup
                        {[id |-> FreshTimer(cleaned), rules |-> rules, delay |-> sp]}
         ELSE /\ timers' = timers
              /\ intervalRef' = Null
    ELSE UNCHANGED <<intervalRef, timers>>

\* mutant: the effect clears the timer of the previous run and starts none
LoopEffect_StartsNoTimer(sim, rules, rulesSet, sp) ==
    IF sim # simulationState \/ sp # speed \/ rulesSet
    THEN /\ timers' = {t \in timers : t.id # intervalRef}
         /\ intervalRef' = Null
    ELSE UNCHANGED <<intervalRef, timers>>

\* mutant: the effect does not depend on step, so the timer goes on calling
\* the step callback it was started with after wealthRules is set
LoopEffect_StaleStep(sim, rules, rulesSet, sp) ==
    IF sim # simulationState \/ sp # speed
    THEN LET cleaned == IF intervalRef # Null
                        THEN {t \in timers : t.id # intervalRef}
                        ELSE timers
         IN IF sim = "playing"
            THEN /\ intervalRef' = FreshTimer(cleaned)
                 /\ timers' = cleaned \cup
                        {[id |-> FreshTimer(cleaned), rules |-> rules, delay |-> sp]}
            ELSE IF intervalRef # Null
                 THEN /\ timers' = {t \in cleaned : t.id # intervalRef}
                      /\ intervalRef' = Null
                 ELSE /\ timers' = cleaned
                      /\ intervalRef' = intervalRef
    ELSE UNCHANGED <<intervalRef, timers>>

\* the simulation loop effect, deps [simulationState, speed, step]; step is a
\* new callback whenever wealthRules is set.  The cleanup of the previous run
\* comes first, then the effect's body.
LoopEffect(sim, rules, rulesSet, sp) ==
    IF sim # simulationState \/ sp # speed \/ rulesSet
    THEN LET cleaned == IF intervalRef # Null
                        THEN {t \in timers : t.id # intervalRef}
                        ELSE timers
         IN IF sim = "playing"
            THEN /\ intervalRef' = FreshTimer(cleaned)
                 /\ timers' = cleaned \cup
                        {[id |-> FreshTimer(cleaned), rules |-> rules, delay |-> sp]}
            ELSE IF intervalRef # Null
                 THEN /\ timers' = {t \in cleaned : t.id # intervalRef}
                      /\ intervalRef' = Null
                 ELSE /\ timers' = cleaned
                      /\ intervalRef' = intervalRef
    ELSE UNCHANGED <<intervalRef, timers>>

\* the render after a callback: the new state, then the effects.  h is the
\* heap the callback left, gs the grid state (gridState itself when the
\* updater returned prev), and record what `call` is to hold.
Render(h, gs, rules, rulesSet, sim, sp, gen, record) ==
    /\ heap' = Keep(h, {gs.cells, gridState.cells})
    /\ gridState' = gs
    /\ wealthRules' = rules
    /\ simulationState' = sim
    /\ speed' = sp
    /\ generation' = gen
    /\ SaveEffect(gs, h[gs.cells], rules, rulesSet, sp)
    /\ LoopEffect(sim, rules, rulesSet, sp)
    /\ ops' = ops + 1
    /\ call' = [record EXCEPT !.grid = gridState.cells,
                              !.before = heap[gridState.cells],
                              !.ret = gs.cells,
                              !.prev = HookSnapshot]
    /\ UNCHANGED grid

\* a callback of the hook: App's showRules and the popup are left alone
Commit(h, gs, rules, rulesSet, sim, sp, gen, record) ==
    /\ Render(h, gs, rules, rulesSet, sim, sp, gen, record)
    /\ UNCHANGED <<popup, hexGrid>>

\* the callbacks are modelled on a state the engine can work on: not on one
\* mounted from a record the loader accepted that is no such state
Usable ==
    call.fn = "mount" /\ Truthy(loadFromStorage(call.stored))
        => WellFormedRecord(call.stored)

HookRunning == grid = 0 /\ ops < MaxOps /\ Usable

HookPositions == Positions(gridState.height, gridState.width)

HasAliveCells(cells) ==
    \E r \in 1..Len(cells) : \E c \in 1..Len(cells[r]) : cells[r][c].age > 0

\* mutant: the step does not look for live cells, the simulation goes on
StepWith_NoAutoStop(rules, name) ==
    LET r == computeNextGeneration(heap, gridState.cells, rules,
                                   DEFAULT_STARTING_WEALTH)
    IN Commit(r.heap,
              FreshState(gridState, r.ret, gridState.width, gridState.height),
              wealthRules, FALSE, simulationState, speed, generation + 1,
              [NoCall EXCEPT !.fn = name, !.rules = rules])

\* mutant: a step that finds no live cell returns before it counts
StepWith_EmptyNotCounted(rules, name) ==
    LET r == computeNextGeneration(heap, gridState.cells, rules,
                                   DEFAULT_STARTING_WEALTH)
        hasAliveCells == HasAliveCells(r.heap[r.ret])
    IN Commit(r.heap,
              FreshState(gridState, r.ret, gridState.width, gridState.height),
              wealthRules, FALSE,
              IF ~hasAliveCells THEN "stopped" ELSE simulationState,
              speed, IF hasAliveCells THEN generation + 1 ELSE generation,
              [NoCall EXCEPT !.fn = name, !.rules = rules])

\* step, with the wealthRules its closure holds
StepWith(rules, name) ==
    \E r \in {computeNextGeneration(heap, gridState.cells, rules,
                                     DEFAULT_STARTING_WEALTH)} :
        \E hasAliveCells \in {HasAliveCells(r.heap[r.ret])} :
            Commit(r.heap,
                   FreshState(gridState, r.ret, gridState.width, gridState.height),
                   wealthRules, FALSE,
                   IF ~hasAliveCells THEN "stopped" ELSE simulationState,
                   speed, generation + 1,
                   [NoCall EXCEPT !.fn = name, !.rules = rules])

Step ==
    /\ HookRunning
    /\ StepWith(wealthRules, "hook.step")

\* an interval timer fires and runs the step callback it was given
Tick ==
    /\ HookRunning
    /\ \E t \in timers : StepWith(t.rules, "hook.tick")

Play ==
    /\ HookRunning
    /\ Commit(heap, gridState, wealthRules, FALSE, "playing", speed, generation,
              [NoCall EXCEPT !.fn = "hook.play"])

\* mutant: pause does nothing unless the simulation is playing
Pause_OnlyWhenPlaying ==
    /\ HookRunning
    /\ Commit(heap, gridState, wealthRules, FALSE,
              IF simulationState = "playing" THEN "paused" ELSE simulationState,
              speed, generation, [NoCall EXCEPT !.fn = "hook.pause"])

Pause ==
    /\ HookRunning
    /\ Commit(heap, gridState, wealthRules, FALSE, "paused", speed, generation,
              [NoCall EXCEPT !.fn = "hook.pause"])

\* mutant: clear forgets setGeneration(0)
Clear_KeepsGeneration ==
    /\ HookRunning
    /\ LET r == New(heap, createEmptyGrid(gridState.width, gridState.height))
       IN Commit(r.heap,
                 FreshState(gridState, r.ret, gridState.width, gridState.height),
                 wealthRules, FALSE, "stopped", speed, generation,
                 [NoCall EXCEPT !.fn = "hook.clear"])

Clear ==
    /\ HookRunning
    /\ LET r == New(heap, createEmptyGrid(gridState.width, gridState.height))
       IN Commit(r.heap,
                 FreshState(gridState, r.ret, gridState.width, gridState.height),
                 wealthRules, FALSE, "stopped", speed, 0,
                 [NoCall EXCEPT !.fn = "hook.clear"])

ToggleCell ==
    /\ HookRunning
    /\ \E pos \in HookPositions :
         LET r == toggleCell(heap, gridState.cells, pos[1], pos[2],
                             DEFAULT_STARTING_WEALTH)
         IN Commit(r.heap,
                   FreshState(gridState, r.ret, gridState.width, gridState.height),
                   wealthRules, FALSE, simulationState, speed, generation,
                   [NoCall EXCEPT !.fn = "hook.toggleCell",
                                  !.row = pos[1], !.col = pos[2]])

\* mutant: the updater builds a new state object whatever setCell returned
hookSetCell_AlwaysNewState(gs, r) ==
    FreshState(gs, r.ret, gs.width, gs.height)

\* the updater of the hook's setCell: prev itself when setCell returned
\* prev.cells
hookSetCell(gs, r) ==
    IF r.ret = gs.cells
    THEN gs
    ELSE FreshState(gs, r.ret, gs.width, gs.height)

SetCell ==
    /\ HookRunning
    /\ \E pos \in HookPositions, value \in BOOLEAN :
         LET r == setCell(heap, gridState.cells, pos[1], pos[2], value,
                          DEFAULT_STARTING_WEALTH)
         IN Commit(r.heap, hookSetCell(gridState, r),
                   wealthRules, FALSE, simulationState, speed, generation,
                   [NoCall EXCEPT !.fn = "hook.setCell",
                                  !.row = pos[1], !.col = pos[2],
                                  !.value = value])

\* mutant: { ...prev, cells: resizeGrid(...) }, the recorded size left as it was
Resize_KeepsRecordedSize ==
    /\ HookRunning
    /\ \E d \in Dims :
         LET r == resizeGrid(heap, gridState.cells, d[2], d[1])
         IN Commit(r.heap,
                   FreshState(gridState, r.ret, gridState.width, gridState.height),
                   wealthRules, FALSE, simulationState, speed, generation,
                   [NoCall EXCEPT !.fn = "hook.resize",
                                  !.width = d[2], !.height = d[1]])

Resize ==
    /\ HookRunning
    /\ \E d \in Dims :
         LET r == resizeGrid(heap, gridState.cells, d[2], d[1])
         IN Commit(r.heap, FreshState(gridState, r.ret, d[2], d[1]),
                   wealthRules, FALSE, simulationState, speed, generation,
                   [NoCall EXCEPT !.fn = "hook.resize",
                                  !.width = d[2], !.height = d[1]])

\* mutant: randomize starts over as clear does, generation 0 and stopped
Randomize_StartsOver ==
    /\ HookRunning
    /\ \E density \in Densities, source \in DrawSources :
         LET r == randomizeGrid(heap, gridState.width, gridState.height, density,
                                DEFAULT_STARTING_WEALTH,
                                Draws(source, gridState.width * gridState.height))
         IN Commit(r.heap,
                   FreshState(gridState, r.ret, gridState.width, gridState.height),
                   wealthRules, FALSE, "stopped", speed, 0,
                   [NoCall EXCEPT !.fn = "hook.randomize"])

Randomize ==
    /\ HookRunning
    /\ \E density \in Densities, source \in DrawSources :
         LET r == randomizeGrid(heap, gridState.width, gridState.height, density,
                                DEFAULT_STARTING_WEALTH,
                                Draws(source, gridState.width * gridState.height))
         IN Commit(r.heap,
                   FreshState(gridState, r.ret, gridState.width, gridState.height),
                   wealthRules, FALSE, simulationState, speed, generation,
                   [NoCall EXCEPT !.fn = "hook.randomize"])

\* mutant: a live cell is replaced by a fresh one of wealth 1, its age lost
resetWealthCells_LosesAge(cells) ==
    [r \in 1..Len(cells) |->
        [c \in 1..Len(cells[r]) |->
            IF cells[r][c].age > 0
            THEN [age |-> 1, wealth |-> 1]
            ELSE cells[r][c]]]

\* mutant: every cell gets wealth 1, the dead ones too
resetWealthCells_AllCells(cells) ==
    [r \in 1..Len(cells) |->
        [c \in 1..Len(cells[r]) |-> [cells[r][c] EXCEPT !.wealth = 1]]]

\* mutant: the wealth of a live cell is reset to 0
resetWealthCells_ZeroWealth(cells) ==
    [r \in 1..Len(cells) |->
        [c \in 1..Len(cells[r]) |->
            IF cells[r][c].age > 0
            THEN [cells[r][c] EXCEPT !.wealth = 0]
            ELSE cells[r][c]]]

\* prev.cells.map(row => row.map(cell => cell.age > 0 ? {...cell, wealth: 1} : cell))
resetWealthCells(cells) ==
    [r \in 1..Len(cells) |->
        [c \in 1..Len(cells[r]) |->
            IF cells[r][c].age > 0
            THEN [cells[r][c] EXCEPT !.wealth = 1]
            ELSE cells[r][c]]]

ResetWealth ==
    /\ HookRunning
    /\ LET r == New(heap, resetWealthCells(heap[gridState.cells]))
       IN Commit(r.heap,
                 FreshState(gridState, r.ret, gridState.width, gridState.height),
                 wealthRules, FALSE, simulationState, speed, generation,
                 [NoCall EXCEPT !.fn = "hook.resetWealth"])

\* setWealthRules with a new array, as the rules popup passes one
SetWealthRules ==
    /\ HookRunning
    /\ \E rules \in RuleTables :
         Commit(heap, gridState, rules, TRUE, simulationState, speed, generation,
                [NoCall EXCEPT !.fn = "hook.setWealthRules", !.rules = rules])

SetSpeed ==
    /\ HookRunning
    /\ \E sp \in Speeds :
         Commit(heap, gridState, wealthRules, FALSE, simulationState, sp, generation,
                [NoCall EXCEPT !.fn = "hook.setSpeed"])

\* the hook after its first render and the effects of that render, with
\* nothing in storage before it
InitHook ==
    /\ heap = (1 :> createEmptyGrid(initialWidth, initialHeight))
    /\ grid = 0
    /\ call = NoCall
    /\ gridState = [id |-> 0, cells |-> 1, width |-> initialWidth,
                    height |-> initialHeight]
    /\ wealthRules = defaultWealthRules
    /\ simulationState = "stopped"
    /\ speed = DefaultSpeed
    /\ generation = 0
    /\ intervalRef = Null
    /\ timers = {}
    /\ storage = JSONstringify(StoredState(gridState, heap[1], wealthRules,
                                           speed))
    /\ ops = 0
    /\ popup = PopupClosed
    /\ hexGrid = HexGridIdle

NextHook ==
    \/ Step
    \/ Tick
    \/ Play
    \/ Pause
    \/ Clear
    \/ ToggleCell
    \/ SetCell
    \/ Resize
    \/ Randomize
    \/ ResetWealth
    \/ SetWealthRules
    \/ SetSpeed

SpecHook == InitHook /\ [][NextHook]_vars

-----------------------------------------------------------------------------
(* computeNextGeneration handed a rule table with fewer than seven         *)
(* entries: WealthRules is number[], so nothing keeps a caller from it.    *)

\* no entry at all; entries for 0..2 neighbours; all but the entry for 6
ShortRuleTables ==
    { <<>>,
      <<-1, -3, -1>>,
      <<5, 5, 5>>,
      <<-1, -3, -1, 1, -1, -2>> }

\* one call on a fresh grid
CallComputeNextGenerationShort ==
    /\ HarnessFresh
    /\ \E rules \in ShortRuleTables, sw \in StartingWealths :
         LET r == computeNextGeneration(heap, grid, rules, sw)
         IN /\ heap' = Keep(r.heap, {grid, r.ret})
            /\ grid' = r.ret
            /\ call' = [NoCall EXCEPT !.fn = "computeNextGeneration (short)",
                          !.grid = grid, !.before = heap[grid],
                          !.rules = rules, !.startingWealth = sw,
                          !.steps = 1,
                          !.height = GridHeight(heap[grid]),
                          !.width = GridWidth(heap[grid]),
                          !.ret = r.ret]
    /\ UNCHANGED hookVars

SpecShortRules == InitLogic /\ [][CallComputeNextGenerationShort]_vars

-----------------------------------------------------------------------------
(* toggleCell called twice on the same cell, as the hook's test 'toggles   *)
(* cell from alive to dead' does: the second call is given the grid the    *)
(* first returned.  call.before keeps the content of the grid the first    *)
(* call was given.                                                         *)

CallToggleCellAgain ==
    /\ grid # 0
    /\ call.fn = "toggleCell"
    /\ LET r == toggleCell(heap, call.ret, call.row, call.col, call.startingWealth)
       IN /\ heap' = Keep(r.heap, {grid, r.ret})
          /\ call' = [call EXCEPT !.fn = "toggleCell twice", !.ret = r.ret]
    /\ UNCHANGED <<grid, hookVars>>

NextDoubleToggle ==
    \/ CallToggleCell
    \/ CallToggleCellAgain

SpecDoubleToggle == InitLogic /\ [][NextDoubleToggle]_vars

-----------------------------------------------------------------------------
(* The run to extinction of the hook's tests: toggleCell gives an empty    *)
(* grid one live cell, then the simulation is played and stepped, by hand  *)
(* or by the timer, and nothing else is called.                            *)

\* the hook after toggleCell(row, col) on its empty grid
InitExtinction ==
    \E d \in Dims : \E pos \in Positions(d[1], d[2]) :
        /\ heap = (1 :> MakeGrid(d[1], d[2], {pos},
                                createAliveCell(DEFAULT_STARTING_WEALTH)))
        /\ grid = 0
        /\ call = [NoCall EXCEPT !.fn = "hook.toggleCell",
                                 !.row = pos[1], !.col = pos[2]]
        /\ gridState = [id |-> 1, cells |-> 1, width |-> d[2], height |-> d[1]]
        /\ wealthRules = defaultWealthRules
        /\ simulationState = "stopped"
        /\ speed = DefaultSpeed
        /\ generation = 0
        /\ intervalRef = Null
        /\ timers = {}
        /\ storage = JSONstringify(StoredState(gridState, heap[1], wealthRules,
                                           speed))
        /\ ops = 0
        /\ popup = PopupClosed
        /\ hexGrid = HexGridIdle

ExtinctionRunning == grid = 0 /\ ops < MaxRun

RunPlay ==
    /\ ExtinctionRunning
    /\ simulationState # "playing"
    /\ Commit(heap, gridState, wealthRules, FALSE, "playing", speed, generation,
              [NoCall EXCEPT !.fn = "hook.play"])

RunStep ==
    /\ ExtinctionRunning
    /\ StepWith(wealthRules, "hook.step")

RunTick ==
    /\ ExtinctionRunning
    /\ \E t \in timers : StepWith(t.rules, "hook.tick")

NextExtinction ==
    \/ RunPlay
    \/ RunStep
    \/ RunTick

SpecExtinction == InitExtinction /\ [][NextExtinction]_vars

\* setInterval calls step again and again for as long as the timer is active
SpecExtinctionFair == SpecExtinction /\ WF_vars(RunTick)

-----------------------------------------------------------------------------
(* The decline: the hook holds a grid of cells of some wealth and a rule   *)
(* table (both as a stored record or earlier callbacks left them), and the *)
(* simulation is played and stepped, by hand or by the timer, with no edit *)
(* in between.                                                             *)

\* tables without a positive entry, and tables of negative entries only
DeclineRuleTables ==
    { <<-1, -3, 0, 0, -1, -2, -3>>,
      <<-1, -1, -1, -1, -1, -1, -1>>,
      <<-5, -3, -1, -2, -1, -2, -3>> }

\* what a fresh cell of a decline grid holds: 1, 2 or 3, by its position
\* (row and col from 0)
GradedWealth(row, col) == 1 + ((row + 2 * col) % 3)

\* the live cells of a grid are few, at most two, or all but at most one
DeclineLive(h, w) ==
    { live \in SUBSET Positions(h, w) :
        Cardinality(live) <= 2 \/ Cardinality(live) >= h * w - 1 }

\* the live cells of a grid: all aged (oldCell, wealth 3), or all fresh with
\* the wealth of their position
DeclineGrids ==
    UNION { { MakeGrid(d[1], d[2], live, oldCell) : live \in DeclineLive(d[1], d[2]) }
            \cup
            { [r \in 1..d[1] |->
                 [c \in 1..d[2] |->
                     IF <<r - 1, c - 1>> \in live
                     THEN [age |-> 1, wealth |-> GradedWealth(r - 1, c - 1)]
                     ELSE createEmptyCell]] : live \in DeclineLive(d[1], d[2]) } :
            d \in Dims }

InitDecline ==
    \E cells \in DeclineGrids, rules \in DeclineRuleTables :
        /\ heap = (1 :> cells)
        /\ grid = 0
        /\ call = NoCall
        /\ gridState = [id |-> 1, cells |-> 1,
                        width |-> GridWidth(cells), height |-> GridHeight(cells)]
        /\ wealthRules = rules
        /\ simulationState = "stopped"
        /\ speed = DefaultSpeed
        /\ generation = 0
        /\ intervalRef = Null
        /\ timers = {}
        /\ storage = JSONstringify(StoredState(gridState, cells, rules, speed))
        /\ ops = 0
        /\ popup = PopupClosed
        /\ hexGrid = HexGridIdle

DeclineRunning == grid = 0 /\ ops < MaxDecline

DeclinePlay ==
    /\ DeclineRunning
    /\ simulationState # "playing"
    /\ Commit(heap, gridState, wealthRules, FALSE, "playing", speed, generation,
              [NoCall EXCEPT !.fn = "hook.play"])

DeclineStep ==
    /\ DeclineRunning
    /\ StepWith(wealthRules, "hook.step")

DeclineTick ==
    /\ DeclineRunning
    /\ \E t \in timers : StepWith(t.rules, "hook.tick")

NextDecline ==
    \/ DeclinePlay
    \/ DeclineStep
    \/ DeclineTick

SpecDecline == InitDecline /\ [][NextDecline]_vars

\* setInterval calls step again and again for as long as the timer is active
SpecDeclineFair == SpecDecline /\ WF_vars(DeclineTick)

-----------------------------------------------------------------------------
(* The hook mounted over what localStorage holds.  The three useState      *)
(* initializers each call loadFromStorage on the same item; the save       *)
(* effect of the first render then writes the state back.                  *)

\* the record of the hook's storage tests: 2 x 2, two live cells
SavedCells ==
    <<<<[age |-> 1, wealth |-> 10], [age |-> 0, wealth |-> 0]>>,
      <<[age |-> 0, wealth |-> 0], [age |-> 2, wealth |-> 20]>>>>

SavedRecord ==
    JSONstringify([gridState |-> [cells |-> SavedCells, width |-> 2, height |-> 2],
                   wealthRules |-> <<0, 0, 1, 1, 0, 0, 0>>,
                   speed |-> 300])

\* the object without the property name; with value as its property name
Without(object, name) ==
    JObject([n \in DOMAIN object.fields \ {name} |-> object.fields[n]])

With(object, name, value) ==
    JObject([n \in DOMAIN object.fields \cup {name} |->
                IF n = name THEN value ELSE object.fields[n]])

WithGrid(object, name, value) ==
    With(object, "gridState", With(Get(object, "gridState"), name, value))

AliveJson == CellToJson([age |-> 1, wealth |-> 10])
DeadJson == CellToJson([age |-> 0, wealth |-> 0])

\* what the key may hold when the hook mounts
StoredItems ==
    { NoItem, InvalidJson, JNull, JNumber(5), JString("hexalife"),
      JObject([speed |-> JNumber(300)]),
      SavedRecord,
      Without(SavedRecord, "speed"),
      With(SavedRecord, "speed", JNull),
      With(SavedRecord, "speed", JNumber(50)),
      Without(SavedRecord, "wealthRules"),
      With(SavedRecord, "wealthRules", JString("classic")),
      With(SavedRecord, "wealthRules", JArray(<<>>)),
      With(SavedRecord, "wealthRules",
           JArray([i \in 1..6 |-> JNumber(defaultWealthRules[i])])),
      With(SavedRecord, "wealthRules",
           JArray([i \in 1..8 |-> JNumber(0)])),
      Without(SavedRecord, "gridState"),
      With(SavedRecord, "gridState", JNull),
      WithGrid(SavedRecord, "width", JString("2")),
      With(SavedRecord, "gridState",
           Without(Get(SavedRecord, "gridState"), "height")),
      WithGrid(SavedRecord, "cells", JString("cells")),
      WithGrid(SavedRecord, "cells", JArray(<<>>)),
      WithGrid(SavedRecord, "cells", JArray(<<JArray(<<>>)>>)),
      WithGrid(SavedRecord, "cells", JArray(<<JNumber(1), JNumber(2)>>)),
      WithGrid(SavedRecord, "cells",
               JArray(<<JArray(<<JNumber(1), DeadJson>>),
                        JArray(<<DeadJson, AliveJson>>)>>)),
      WithGrid(SavedRecord, "cells",
               JArray(<<JArray(<<JObject([age |-> JNumber(1)]), DeadJson>>),
                        JArray(<<DeadJson, AliveJson>>)>>)),
      \* rows of different lengths
      WithGrid(SavedRecord, "cells",
               JArray(<<JArray(<<AliveJson, DeadJson>>),
                        JArray(<<DeadJson>>)>>)),
      \* width and height that are not those of the cells
      WithGrid(WithGrid(SavedRecord, "width", JNumber(3)), "height", JNumber(1)),
      \* a cell after the first that is no cell
      WithGrid(SavedRecord, "cells",
               JArray(<<JArray(<<AliveJson, JNumber(7)>>),
                        JArray(<<DeadJson, AliveJson>>)>>)),
      WithGrid(SavedRecord, "cells",
               JArray(<<JArray(<<AliveJson, DeadJson>>),
                        JArray(<<JObject([age |-> JNumber(1)]), AliveJson>>)>>)),
      \* a first cell whose age is no number
      WithGrid(SavedRecord, "cells",
               JArray(<<JArray(<<JObject([age |-> JString("old"),
                                          wealth |-> JNumber(10)]), DeadJson>>),
                        JArray(<<DeadJson, AliveJson>>)>>)) }

\* mutant: the rules initializer does not look at the storage
Mount_DefaultRules(item) ==
    LET stored == loadFromStorage(item)
        storedSpeed == OptGet(stored, "speed")
        gs == Get(stored, "gridState")
        sp == IF storedSpeed.type \in {"undefined", "null"}
              THEN JNumber(DefaultSpeed)
              ELSE storedSpeed
    IN IF Truthy(stored)
       THEN [cells |-> JsValue(Get(gs, "cells")),
             width |-> JsValue(Get(gs, "width")),
             height |-> JsValue(Get(gs, "height")),
             wealthRules |-> defaultWealthRules,
             speed |-> JsValue(sp),
             json |-> JObject([gridState |-> gs,
                               wealthRules |-> Get(stored, "wealthRules"),
                               speed |-> sp])]
       ELSE [cells |-> createEmptyGrid(initialWidth, initialHeight),
             width |-> initialWidth,
             height |-> initialHeight,
             wealthRules |-> defaultWealthRules,
             speed |-> DefaultSpeed,
             json |-> JSONstringify(
                          [gridState |->
                               [cells |-> createEmptyGrid(initialWidth, initialHeight),
                                width |-> initialWidth, height |-> initialHeight],
                           wealthRules |-> defaultWealthRules,
                           speed |-> DefaultSpeed])]

\* the state the useState initializers build, and json, what the save effect
\* of the first render writes: JSON.stringify({ gridState, wealthRules, speed })
Mount(item) ==
    LET stored == loadFromStorage(item)
        storedSpeed == OptGet(stored, "speed")
        gs == Get(stored, "gridState")
        sp == IF storedSpeed.type \in {"undefined", "null"}
              THEN JNumber(DefaultSpeed)
              ELSE storedSpeed
    IN IF Truthy(stored)
       THEN [cells |-> JsValue(Get(gs, "cells")),
             width |-> JsValue(Get(gs, "width")),
             height |-> JsValue(Get(gs, "height")),
             wealthRules |-> JsValue(Get(stored, "wealthRules")),
             speed |-> JsValue(sp),
             json |-> JObject([gridState |-> gs,
                               wealthRules |-> Get(stored, "wealthRules"),
                               speed |-> sp])]
       ELSE [cells |-> createEmptyGrid(initialWidth, initialHeight),
             width |-> initialWidth,
             height |-> initialHeight,
             wealthRules |-> defaultWealthRules,
             speed |-> DefaultSpeed,
             json |-> JSONstringify(
                          [gridState |->
                               [cells |-> createEmptyGrid(initialWidth, initialHeight),
                                width |-> initialWidth, height |-> initialHeight],
                           wealthRules |-> defaultWealthRules,
                           speed |-> DefaultSpeed])]

\* the hook after its first render over item
InitStorage ==
    \E item \in StoredItems :
        LET m == Mount(item)
        IN /\ heap = (1 :> m.cells)
           /\ grid = 0
           /\ call = [NoCall EXCEPT !.fn = "mount", !.stored = item]
           /\ gridState = [id |-> 0, cells |-> 1, width |-> m.width,
                           height |-> m.height]
           /\ wealthRules = m.wealthRules
           /\ simulationState = "stopped"
           /\ speed = m.speed
           /\ generation = 0
           /\ intervalRef = Null
           /\ timers = {}
           /\ storage = m.json
           /\ ops = 0
           /\ popup = PopupClosed
           /\ hexGrid = HexGridIdle

\* the page is reloaded: the loop effect's cleanup clears the timer, and the
\* hook mounts over what the save effect wrote last
Remount ==
    /\ HookRunning
    /\ LET m == Mount(storage)
       IN /\ heap' = (1 :> m.cells)
          /\ gridState' = [id |-> 0, cells |-> 1, width |-> m.width,
                           height |-> m.height]
          /\ wealthRules' = m.wealthRules
          /\ simulationState' = "stopped"
          /\ speed' = m.speed
          /\ generation' = 0
          /\ intervalRef' = Null
          /\ timers' = {}
          /\ storage' = m.json
          /\ popup' = PopupClosed
          /\ hexGrid' = HexGridIdle
          /\ ops' = ops + 1
          /\ call' = [NoCall EXCEPT !.fn = "mount", !.stored = storage,
                                    !.grid = gridState.cells,
                                    !.before = heap[gridState.cells],
                                    !.prev = HookSnapshot]
          /\ UNCHANGED grid

\* the hook's resize(newWidth, newHeight)
hookResize(newWidth, newHeight, name) ==
    LET r == resizeGrid(heap, gridState.cells, newWidth, newHeight)
    IN Commit(r.heap, FreshState(gridState, r.ret, newWidth, newHeight),
              wealthRules, FALSE, simulationState, speed, generation,
              [NoCall EXCEPT !.fn = name,
                             !.width = newWidth, !.height = newHeight])

\* Number(e.target.value) of what a size input holds after a keystroke: the
\* empty text of a field that was emptied is 0
JsNumber(text) ==
    CASE text = "" -> 0
      [] text = "4" -> 4
      [] text = "5" -> 5
      [] text = "6" -> 6
      [] text = "150" -> 150
      [] text = "151" -> 151

\* Controls: the W field is emptied; its onChange calls
\* onResize(Number(''), height)
ClearWidth ==
    /\ HookRunning
    /\ hookResize(JsNumber(""), gridState.height, "controls.width")

NextStorage ==
    \/ Remount
    \/ ClearWidth
    \/ Step
    \/ Play
    \/ ToggleCell
    \/ Resize
    \/ SetWealthRules
    \/ SetSpeed

SpecStorage == InitStorage /\ [][NextStorage]_vars

-----------------------------------------------------------------------------
(* The wealth rules popup.  App mounts WealthRulesPopup while showRules is *)
(* true, with wealthRules, onSave = setWealthRules and onClose =           *)
(* setShowRules(false); the popup keeps its own copy, localRules.          *)

\* the presets: classic, stable, volatile, social
Presets ==
    { <<-5, -3, 3, 5, -2, -4, -5>>,
      <<-2, 0, 2, 2, 0, -1, -2>>,
      <<-10, -5, 5, 10, -3, -6, -10>>,
      <<-5, -2, 1, 2, 3, 1, -1>> }

\* the ends and the middle of a slider, min -10, max 10
SliderValues == {-10, 0, 10}

\* a render of App or of the popup that changes no state of the hook: no
\* effect of the hook runs
PopupStep(record) ==
    /\ ops' = ops + 1
    /\ call' = [record EXCEPT !.grid = gridState.cells,
                              !.before = heap[gridState.cells],
                              !.ret = gridState.cells,
                              !.prev = HookSnapshot,
                              !.localRules = popup.localRules]
    /\ UNCHANGED <<heap, grid, gridState, wealthRules, simulationState, speed,
                   generation, intervalRef, timers, storage, hexGrid>>

\* setShowRules(true): the popup mounts, useState([...wealthRules])
OpenRules ==
    /\ HookRunning
    /\ ~popup.open
    /\ popup' = [open |-> TRUE, localRules |-> wealthRules]
    /\ PopupStep([NoCall EXCEPT !.fn = "popup.open"])

\* mutant: a slider hands its change to onSave as well
ChangeRule_WritesThrough ==
    /\ HookRunning
    /\ popup.open
    /\ \E index \in 0..(Len(popup.localRules) - 1), value \in SliderValues :
         /\ popup' = [popup EXCEPT !.localRules[index + 1] = value]
         /\ Render(heap, gridState, popup'.localRules, TRUE, simulationState,
                   speed, generation,
                   [NoCall EXCEPT !.fn = "popup.change", !.index = index,
                                  !.slider = value,
                                  !.localRules = popup.localRules])
    /\ UNCHANGED hexGrid

\* a slider is moved: handleChange(i, Number(e.target.value)); the sliders
\* are those of localRules.map
ChangeRule ==
    /\ HookRunning
    /\ popup.open
    /\ \E index \in 0..(Len(popup.localRules) - 1), value \in SliderValues :
         /\ popup' = [popup EXCEPT !.localRules[index + 1] = value]
         /\ PopupStep([NoCall EXCEPT !.fn = "popup.change", !.index = index,
                                     !.slider = value])

\* a preset button: setLocalRules([...preset.rules])
LoadPreset ==
    /\ HookRunning
    /\ popup.open
    /\ \E rules \in Presets :
         /\ popup' = [popup EXCEPT !.localRules = rules]
         /\ PopupStep([NoCall EXCEPT !.fn = "popup.preset", !.rules = rules])

\* handleReset: setLocalRules([...defaultWealthRules])
ResetRules ==
    /\ HookRunning
    /\ popup.open
    /\ popup' = [popup EXCEPT !.localRules = defaultWealthRules]
    /\ PopupStep([NoCall EXCEPT !.fn = "popup.reset"])

\* handleSave: onSave(localRules); onClose()
SaveRules ==
    /\ HookRunning
    /\ popup.open
    /\ popup' = PopupClosed
    /\ Render(heap, gridState, popup.localRules, TRUE, simulationState, speed,
              generation,
              [NoCall EXCEPT !.fn = "popup.save",
                             !.localRules = popup.localRules])
    /\ UNCHANGED hexGrid

\* Cancel, or a click on the overlay: onClose()
CloseRules ==
    /\ HookRunning
    /\ popup.open
    /\ popup' = PopupClosed
    /\ PopupStep([NoCall EXCEPT !.fn = "popup.close"])

NextPopup ==
    \/ OpenRules
    \/ ChangeRule
    \/ LoadPreset
    \/ ResetRules
    \/ SaveRules
    \/ CloseRules

\* App over what localStorage holds, and its popup
SpecPopup == InitStorage /\ [][NextPopup]_vars

-----------------------------------------------------------------------------
(* The size inputs of Controls, over the hook as App mounts it.  Each      *)
(* input is <input type="number" min="5" max="150">; its onChange hands    *)
(* Number(e.target.value) to onResize, which is the hook's resize.         *)

AppInitialSize == 60
SizeMin == 5
SizeMax == 150

\* what a size input holds after a keystroke
TypedTexts == {"", "4", "5", "6", "150", "151"}

\* useGameOfLife(60, 60) with nothing stored
InitControls ==
    /\ heap = (1 :> createEmptyGrid(AppInitialSize, AppInitialSize))
    /\ grid = 0
    /\ call = NoCall
    /\ gridState = [id |-> 0, cells |-> 1, width |-> AppInitialSize,
                    height |-> AppInitialSize]
    /\ wealthRules = defaultWealthRules
    /\ simulationState = "stopped"
    /\ speed = DefaultSpeed
    /\ generation = 0
    /\ intervalRef = Null
    /\ timers = {}
    /\ storage = JSONstringify(StoredState(gridState, heap[1], wealthRules,
                                           speed))
    /\ ops = 0
    /\ popup = PopupClosed
    /\ hexGrid = HexGridIdle

ChangeWidth ==
    /\ HookRunning
    /\ \E text \in TypedTexts :
         hookResize(JsNumber(text), gridState.height, "controls.width")

ChangeHeight ==
    /\ HookRunning
    /\ \E text \in TypedTexts :
         hookResize(gridState.width, JsNumber(text), "controls.height")

NextControls ==
    \/ ChangeWidth
    \/ ChangeHeight

SpecControls == InitControls /\ [][NextControls]_vars

-----------------------------------------------------------------------------
(* Drawing on the canvas: HexGrid over the hook, as App mounts it with     *)
(* onCellToggle = toggleCell and onCellSet = setCell.  A mouse event       *)
(* carries the cell pixelToHex finds under the pointer, or none.  `call`   *)
(* records the handler, the cell (row -1 for none), in call.calls how many *)
(* callbacks of the hook it issued, and, for the properties, the cells     *)
(* visited since the last mouse-down on a cell (call.visited) and the      *)
(* state that mouse-down toggled its cell to (call.value).                 *)

\* the grids drawn on: every live pattern of fresh cells on the sizes of up
\* to MaxDragCells cells
DragGrids ==
    UNION { { MakeGrid(d[1], d[2], live, createAliveCell(DEFAULT_STARTING_WEALTH)) :
                live \in SUBSET Positions(d[1], d[2]) } :
            d \in {e \in Dims : e[1] * e[2] <= MaxDragCells} }

InitDrag ==
    \E cells \in DragGrids :
        /\ heap = (1 :> cells)
        /\ grid = 0
        /\ call = NoCall
        /\ gridState = [id |-> 1, cells |-> 1,
                        width |-> GridWidth(cells), height |-> GridHeight(cells)]
        /\ wealthRules = defaultWealthRules
        /\ simulationState = "stopped"
        /\ speed = DefaultSpeed
        /\ generation = 0
        /\ intervalRef = Null
        /\ timers = {}
        /\ storage = JSONstringify(StoredState(gridState, cells, wealthRules, speed))
        /\ ops = 0
        /\ popup = PopupClosed
        /\ hexGrid = HexGridIdle

DragRunning == grid = 0 /\ ops < MaxDrag

\* what pixelToHex returns: a cell of the grid, or null
Pointers == HookPositions \cup {NoValue}

\* the record of a mouse event over hex
MouseEvent(name, hex) ==
    [NoCall EXCEPT !.fn = name,
                   !.row = IF hex = NoValue THEN -1 ELSE hex[1],
                   !.col = IF hex = NoValue THEN -1 ELSE hex[2],
                   !.value = call.value,
                   !.visited = call.visited]

\* a handler that calls nothing of the hook: HexGrid renders with state hg
HexGridStep(hg, record) ==
    /\ hexGrid' = hg
    /\ ops' = ops + 1
    /\ call' = [record EXCEPT !.grid = gridState.cells,
                              !.before = heap[gridState.cells],
                              !.ret = gridState.cells,
                              !.prev = HookSnapshot]
    /\ UNCHANGED <<heap, grid, gridState, wealthRules, simulationState, speed,
                   generation, intervalRef, timers, storage, popup>>

\* mutant: the draw mode is the alive-state of the cell, not its negation
handleMouseDown_DrawsWhatItFound ==
    /\ DragRunning
    /\ \E hex \in Pointers :
         IF hex # NoValue
         THEN LET aliveAtDown == At(heap[gridState.cells], hex[1], hex[2]).age > 0
                  r == toggleCell(heap, gridState.cells, hex[1], hex[2],
                                  DEFAULT_STARTING_WEALTH)
              IN /\ hexGrid' = [hexGrid EXCEPT !.drawMode = <<aliveAtDown>>,
                                               !.isDrawing = TRUE,
                                               !.lastCell = hex]
                 /\ Render(r.heap,
                           FreshState(gridState, r.ret, gridState.width,
                                      gridState.height),
                           wealthRules, FALSE, simulationState, speed, generation,
                           [MouseEvent("mouseDown", hex) EXCEPT
                               !.value = ~aliveAtDown, !.visited = {hex}, !.calls = 1])
                 /\ UNCHANGED popup
         ELSE HexGridStep(hexGrid, MouseEvent("mouseDown", hex))

handleMouseDown ==
    /\ DragRunning
    /\ \E hex \in Pointers :
         IF hex # NoValue
         THEN LET aliveAtDown == At(heap[gridState.cells], hex[1], hex[2]).age > 0
                  r == toggleCell(heap, gridState.cells, hex[1], hex[2],
                                  DEFAULT_STARTING_WEALTH)
              IN /\ hexGrid' = [hexGrid EXCEPT !.drawMode = <<~aliveAtDown>>,
                                               !.isDrawing = TRUE,
                                               !.lastCell = hex]
                 /\ Render(r.heap,
                           FreshState(gridState, r.ret, gridState.width,
                                      gridState.height),
                           wealthRules, FALSE, simulationState, speed, generation,
                           [MouseEvent("mouseDown", hex) EXCEPT
                               !.value = ~aliveAtDown, !.visited = {hex}, !.calls = 1])
                 /\ UNCHANGED popup
         ELSE HexGridStep(hexGrid, MouseEvent("mouseDown", hex))

handleMouseMove ==
    /\ DragRunning
    /\ \E hex \in Pointers :
         IF /\ hexGrid.isDrawing
            /\ hexGrid.drawMode # NoValue
            /\ hex # NoValue
            /\ hexGrid.lastCell # hex
         THEN LET drawMode == hexGrid.drawMode[1]
                  r == setCell(heap, gridState.cells, hex[1], hex[2], drawMode,
                               DEFAULT_STARTING_WEALTH)
              IN /\ hexGrid' = [hexGrid EXCEPT !.hoveredCell = hex,
                                               !.lastCell = hex]
                 /\ Render(r.heap, hookSetCell(gridState, r),
                           wealthRules, FALSE, simulationState, speed, generation,
                           [MouseEvent("mouseMove", hex) EXCEPT
                               !.visited = call.visited \cup {hex}, !.calls = 1])
                 /\ UNCHANGED popup
         ELSE HexGridStep([hexGrid EXCEPT !.hoveredCell = hex],
                          MouseEvent("mouseMove", hex))

handleMouseUp ==
    /\ DragRunning
    /\ HexGridStep([hexGrid EXCEPT !.isDrawing = FALSE, !.drawMode = NoValue,
                                   !.lastCell = NoValue],
                   MouseEvent("mouseUp", NoValue))

handleMouseLeave ==
    /\ DragRunning
    /\ HexGridStep(HexGridIdle, MouseEvent("mouseLeave", NoValue))

NextDrag ==
    \/ handleMouseDown
    \/ handleMouseMove
    \/ handleMouseUp
    \/ handleMouseLeave

SpecDrag == InitDrag /\ [][NextDrag]_vars

\* a run is one of the harness or one of the hook
Init == InitLogic \/ InitHook

Next == NextLogic \/ NextHook

Spec == Init /\ [][Next]_vars

-----------------------------------------------------------------------------
(* Reference definitions for the properties: the hexagonal neighbourhood   *)
(* as the specification states it, as sets.                                *)

EvenRowOffsets == {<<-1, -1>>, <<-1, 0>>, <<0, -1>>, <<0, 1>>, <<1, -1>>, <<1, 0>>}
OddRowOffsets == {<<-1, 0>>, <<-1, 1>>, <<0, -1>>, <<0, 1>>, <<1, 0>>, <<1, 1>>}

OffsetsOfRow(row) == IF row % 2 = 0 THEN EvenRowOffsets ELSE OddRowOffsets

\* the offset targets of (row, col) that lie inside a height x width grid
NeighbourTargets(row, col, height, width) ==
    { t \in Positions(height, width) :
        <<t[1] - row, t[2] - col>> \in OffsetsOfRow(row) }

\* the number of those targets that hold a live cell
LiveNeighbours(cells, row, col) ==
    Cardinality({ t \in NeighbourTargets(row, col, GridHeight(cells), GridWidth(cells)) :
                    At(cells, t[1], t[2]).age > 0 })

deadCell == [age |-> 0, wealth |-> 0]

IsRectangle(cells, height, width) ==
    /\ Len(cells) = height
    /\ \A r \in 1..Len(cells) : Len(cells[r]) = width

\* the positions of the grid the last call was given
CallPositions == Positions(GridHeight(call.before), GridWidth(call.before))

\* the content of the grid the last call returned
Returned == heap[call.ret]

\* the rule's delta for a position of the grid the last call was given
DeltaAt(p) == call.rules[LiveNeighbours(call.before, p[1], p[2]) + 1]

SeqToSet(seq) == {seq[i] : i \in DOMAIN seq}

-----------------------------------------------------------------------------
(* C1: computeNextGeneration, alive cells.  A live cell {a, w} with n live *)
(* neighbours becomes {a + 1, w + rules[n]} when w + rules[n] > 0 and the  *)
(* dead cell {0, 0} when w + rules[n] <= 0.                                *)
C1_AliveCells ==
    call.fn = "computeNextGeneration" =>
        \A p \in CallPositions :
            LET cur == At(call.before, p[1], p[2])
                newWealth == cur.wealth + DeltaAt(p)
            IN cur.age > 0 =>
                 At(Returned, p[1], p[2]) =
                    IF newWealth > 0
                    THEN [age |-> cur.age + 1, wealth |-> newWealth]
                    ELSE deadCell

\* one step in which a live cell with a live neighbour survives, one dies
\* with its wealth falling below 0 and one dies with its wealth reaching 0
C1_Witness ==
    /\ call.fn = "computeNextGeneration"
    /\ \E p \in CallPositions :
          /\ At(call.before, p[1], p[2]).age > 1
          /\ LiveNeighbours(call.before, p[1], p[2]) > 0
          /\ At(Returned, p[1], p[2]).age = At(call.before, p[1], p[2]).age + 1
    /\ \E p \in CallPositions :
          /\ At(call.before, p[1], p[2]).age > 0
          /\ At(call.before, p[1], p[2]).wealth + DeltaAt(p) < 0
          /\ At(Returned, p[1], p[2]) = deadCell
    /\ \E p \in CallPositions :
          /\ At(call.before, p[1], p[2]).age > 0
          /\ At(call.before, p[1], p[2]).wealth + DeltaAt(p) = 0
          /\ At(Returned, p[1], p[2]) = deadCell

(* C2: computeNextGeneration, dead cells.  A dead cell with n live         *)
(* neighbours becomes {1, startingWealth} if and only if rules[n] > 0 and  *)
(* stays {0, 0} otherwise, whatever the magnitude of rules[n].             *)
C2_DeadCells ==
    call.fn = "computeNextGeneration" =>
        \A p \in CallPositions :
            At(call.before, p[1], p[2]).age = 0 =>
                /\ At(Returned, p[1], p[2]) =
                     IF DeltaAt(p) > 0
                     THEN [age |-> 1, wealth |-> call.startingWealth]
                     ELSE deadCell
                /\ (At(Returned, p[1], p[2]).age > 0) <=> (DeltaAt(p) > 0)

\* one step in which a dead cell is born under a delta that differs from
\* the starting wealth, and another dead cell stays dead
C2_Witness ==
    /\ call.fn = "computeNextGeneration"
    /\ call.startingWealth # DEFAULT_STARTING_WEALTH
    /\ \E p \in CallPositions :
          /\ At(call.before, p[1], p[2]).age = 0
          /\ DeltaAt(p) > 0
          /\ DeltaAt(p) # call.startingWealth
          /\ At(Returned, p[1], p[2]) = [age |-> 1, wealth |-> call.startingWealth]
    /\ \E p \in CallPositions :
          /\ At(call.before, p[1], p[2]).age = 0
          /\ DeltaAt(p) <= 0
          /\ At(Returned, p[1], p[2]) = deadCell

-----------------------------------------------------------------------------
(* Orders in which the positions of a grid can be visited *)

Reverse(seq) == [i \in 1..Len(seq) |-> seq[Len(seq) + 1 - i]]

ColumnMajor(height, width) ==
    [k \in 1..(height * width) |-> <<(k - 1) % height, (k - 1) \div height>>]

\* seq, started at its (k+1)-th element and wrapped around
Rotate(seq, k) == [i \in 1..Len(seq) |-> seq[((i - 1 + k) % Len(seq)) + 1]]

Rearrangements(seq) ==
    { [i \in 1..Len(seq) |-> seq[f[i]]] :
        f \in { g \in [1..Len(seq) -> 1..Len(seq)] :
                  \A i, j \in 1..Len(seq) : g[i] = g[j] => i = j } }

\* every order for a small grid; for any grid the reversed, the column-major
\* and the rotated orders
Orders(height, width) ==
    LET rm == RowMajor(height, width)
        cm == ColumnMajor(height, width)
    IN {Reverse(rm), cm, Reverse(cm)}
       \cup {Rotate(rm, k) : k \in 1..(height * width)}
       \cup (IF height * width <= MaxPermuted THEN Rearrangements(rm) ELSE {})

(* C3: computeNextGeneration is a synchronous update.  Visiting the        *)
(* positions in any other order gives the grid the row-major loop gives,   *)
(* and each cell of the result is what the loop body computes from the     *)
(* input grid alone, with nothing else computed before it.                 *)
C3_Synchronous ==
    call.fn = "computeNextGeneration" =>
        LET height == GridHeight(call.before)
            width == GridWidth(call.before)
            empty == createEmptyGrid(width, height)
        IN /\ \A order \in Orders(height, width) :
                GenerationLoop(call.before, empty, call.rules,
                               call.startingWealth, order, 1) = Returned
           /\ \A p \in CallPositions :
                At(Returned, p[1], p[2]) =
                    At(LoopBody(call.before, empty, p[1], p[2], call.rules,
                                call.startingWealth), p[1], p[2])

\* a step in which two neighbouring cells both change their alive-state: the
\* second one visited would see the first one's new state if the update were
\* made in place
C3_Witness ==
    /\ call.fn = "computeNextGeneration"
    /\ \E p \in CallPositions :
         \E q \in NeighbourTargets(p[1], p[2], GridHeight(call.before),
                                   GridWidth(call.before)) :
            /\ (At(call.before, p[1], p[2]).age > 0) # (At(Returned, p[1], p[2]).age > 0)
            /\ (At(call.before, q[1], q[2]).age > 0) # (At(Returned, q[1], q[2]).age > 0)

(* C4: purity.  computeNextGeneration, toggleCell, setCell and resizeGrid  *)
(* leave the grid they are given as it was before the call: every cell's   *)
(* age and wealth, and the dimensions.                                     *)
C4_Purity ==
    call.fn \in {"computeNextGeneration", "toggleCell", "setCell", "resizeGrid"} =>
        /\ heap[call.grid] = call.before
        /\ IsRectangle(heap[call.grid], GridHeight(call.before), GridWidth(call.before))

\* a toggle that returned a grid whose content differs from the input's
C4_Witness ==
    /\ call.fn = "toggleCell"
    /\ call.ret # call.grid
    /\ Returned # call.before
    /\ At(call.before, call.row, call.col).age > 1

(* C5: dimension preservation.  After any number of repeated               *)
(* computeNextGeneration steps the grid has the number of rows and the     *)
(* number of columns of the grid the steps started from.                   *)
C5_Dimensions ==
    call.fn = "computeNextGeneration" =>
        /\ IsRectangle(Returned, call.height, call.width)
        /\ IsRectangle(Returned, GridHeight(call.before), GridWidth(call.before))

\* the second of two steps on a grid that is not square
C5_Witness ==
    /\ call.fn = "computeNextGeneration"
    /\ call.steps = 2
    /\ call.height # call.width
    /\ GridHeight(Returned) = call.height
    /\ GridWidth(Returned) = call.width

(* C6: getNeighborCount is between 0 and 6 and is the number of the six    *)
(* parity-appropriate offset targets that are inside the grid and hold a   *)
(* cell with age > 0; targets outside the grid are skipped.                *)
C6_NeighborCount ==
    call.fn = "getNeighborCount" =>
        /\ call.ret \in 0..6
        /\ call.ret = LiveNeighbours(call.before, call.row, call.col)

\* six live neighbours, aged cells among them
C6_Witness ==
    /\ call.fn = "getNeighborCount"
    /\ call.ret = 6
    /\ \E p \in CallPositions : At(call.before, p[1], p[2]).age > 1

(* C7: getHexNeighborOffsets returns exactly six distinct offsets: the     *)
(* even-row set for even rows and the odd-row set for odd rows.            *)
C7_Offsets ==
    call.fn = "getHexNeighborOffsets" =>
        /\ Len(call.ret) = 6
        /\ Cardinality(SeqToSet(call.ret)) = 6
        /\ SeqToSet(call.ret) = IF call.value THEN OddRowOffsets ELSE EvenRowOffsets

\* the call for an odd row has returned
C7_Witness ==
    /\ call.fn = "getHexNeighborOffsets"
    /\ call.value
    /\ <<1, 1>> \in SeqToSet(call.ret)

(* C8: getNeighborPositions returns exactly the parity-appropriate offset  *)
(* targets inside the grid: 0 to 6 positions, all in bounds, 6 for an      *)
(* interior cell and fewer on edges and corners; the number of them that   *)
(* hold a live cell is getNeighborCount for the same centre.               *)
C8_NeighborPositions ==
    call.fn = "getNeighborPositions" =>
        LET targets == { <<pos.row, pos.col>> : pos \in SeqToSet(call.ret) }
            interior == /\ 0 < call.row /\ call.row < call.height - 1
                        /\ 0 < call.col /\ call.col < call.width - 1
        IN /\ Len(call.ret) \in 0..6
           /\ Cardinality(targets) = Len(call.ret)
           /\ \A t \in targets : InBounds(t[1], t[2], call.height, call.width)
           /\ targets = NeighbourTargets(call.row, call.col, call.height, call.width)
           /\ interior => Len(call.ret) = 6
           /\ ~interior => Len(call.ret) < 6
           /\ Cardinality({ t \in targets : At(call.before, t[1], t[2]).age > 0 })
                = getNeighborCount(call.before, call.row, call.col)

\* an interior cell with its six positions, some of them live, some dead
C8_Witness ==
    /\ call.fn = "getNeighborPositions"
    /\ Len(call.ret) = 6
    /\ \E i, j \in 1..6 :
          /\ At(call.before, call.ret[i].row, call.ret[i].col).age > 0
          /\ At(call.before, call.ret[j].row, call.ret[j].col).age = 0

\* a corner cell, with fewer positions
C8_WitnessCorner ==
    /\ call.fn = "getNeighborPositions"
    /\ call.row = 0 /\ call.col = 0
    /\ Len(call.ret) \in 1..5

(* C10: toggleCell always returns a new grid object, in which the target   *)
(* cell is {0, 0} if it was alive and {1, startingWealth} if it was dead,  *)
(* and every other position holds the age and wealth it held.              *)
C10_Toggle ==
    call.fn = "toggleCell" =>
        /\ call.ret # call.grid
        /\ IsRectangle(Returned, GridHeight(call.before), GridWidth(call.before))
        /\ \A p \in CallPositions :
              At(Returned, p[1], p[2]) =
                 IF p = <<call.row, call.col>>
                 THEN IF At(call.before, p[1], p[2]).age > 0
                      THEN deadCell
                      ELSE [age |-> 1, wealth |-> call.startingWealth]
                 ELSE At(call.before, p[1], p[2])

\* an aged cell toggled off among live cells that stay
C10_Witness ==
    /\ call.fn = "toggleCell"
    /\ At(call.before, call.row, call.col).age > 1
    /\ At(Returned, call.row, call.col) = deadCell
    /\ \E p \in CallPositions : At(Returned, p[1], p[2]).age > 1

\* a dead cell toggled on with a starting wealth other than the default
C10_WitnessBorn ==
    /\ call.fn = "toggleCell"
    /\ At(call.before, call.row, call.col).age = 0
    /\ call.startingWealth # DEFAULT_STARTING_WEALTH
    /\ At(Returned, call.row, call.col).wealth = call.startingWealth

(* C9: setCell identity law.  setCell returns the grid it was given if     *)
(* and only if the alive-state of the target cell already equals the       *)
(* value; otherwise it returns another grid whose target cell is           *)
(* {1, startingWealth} for true or {0, 0} for false and whose other cells  *)
(* are those of the input.  The hook's setCell keeps the same gridState    *)
(* object when nothing changes.                                            *)
C9_SetCellIdentity ==
    /\ call.fn \in {"setCell", "hook.setCell"} =>
          LET wasAlive == At(call.before, call.row, call.col).age > 0
              sw == IF call.fn = "setCell" THEN call.startingWealth
                                           ELSE DEFAULT_STARTING_WEALTH
          IN /\ (call.ret = call.grid) <=> (wasAlive = call.value)
             /\ call.ret # call.grid =>
                   \A p \in CallPositions :
                      At(Returned, p[1], p[2]) =
                         IF p = <<call.row, call.col>>
                         THEN IF call.value THEN [age |-> 1, wealth |-> sw]
                                            ELSE deadCell
                         ELSE At(call.before, p[1], p[2])
             /\ IsRectangle(Returned, GridHeight(call.before), GridWidth(call.before))
    /\ call.fn = "hook.setCell" =>
          (((At(call.before, call.row, call.col).age > 0) = call.value)
              => gridState = call.prev.gridState)

\* setCell(true) on a live aged cell among other cells returned its argument
C9_Witness ==
    /\ call.fn = "setCell"
    /\ call.value
    /\ At(call.before, call.row, call.col).age > 1
    /\ call.ret = call.grid

\* setCell made a change and returned another grid
C9_WitnessChange ==
    /\ call.fn = "setCell"
    /\ ~call.value
    /\ At(call.before, call.row, call.col).age > 1
    /\ call.ret # call.grid
    /\ \E p \in CallPositions : At(Returned, p[1], p[2]).age > 0

\* the hook's setCell on a live cell, with true: setCell returned the array
\* it was given and the hook kept its state object
C9_WitnessHook ==
    /\ call.fn = "hook.setCell"
    /\ call.value
    /\ call.ret = call.grid
    /\ At(call.before, call.row, call.col).age > 0
    /\ gridState = call.prev.gridState

-----------------------------------------------------------------------------
(* C11 as stated: for toggleCell, setCell and resizeGrid the returned grid *)
(* is an object distinct from the input grid if and only if the logical    *)
(* content (dimensions and every cell's age and wealth) changed.           *)
C11_DistinctIffChanged ==
    call.fn \in {"toggleCell", "setCell", "resizeGrid"} =>
        ((call.ret # call.grid) <=> (Returned # call.before))

(* C11 amended: toggleCell and setCell return an object distinct from the  *)
(* input grid if and only if the logical content changed; resizeGrid       *)
(* always returns a distinct object, also when the content is unchanged    *)
(* (a resize to the grid's own dimensions).                                *)
C11_DistinctIffChangedExceptResize ==
    /\ call.fn \in {"toggleCell", "setCell"} =>
          ((call.ret # call.grid) <=> (Returned # call.before))
    /\ call.fn = "resizeGrid" =>
          /\ call.ret # call.grid
          /\ (Returned # call.before) <=>
                 (call.height # GridHeight(call.before)
                    \/ call.width # GridWidth(call.before))

\* a resize to the grid's own dimensions of a grid with a live cell
C11_Witness ==
    /\ call.fn = "resizeGrid"
    /\ call.height = GridHeight(call.before)
    /\ call.width = GridWidth(call.before)
    /\ HasAliveCells(call.before)
    /\ Returned = call.before
    /\ call.ret # call.grid

-----------------------------------------------------------------------------
(* C12: resizeGrid(G, newWidth, newHeight) returns newHeight rows of       *)
(* newWidth cells; a position inside the overlap                           *)
(* [0, min(oldHeight,newHeight)) x [0, min(oldWidth,newWidth)) holds the   *)
(* cell G holds there, every other position is dead {0, 0}.                *)
C12_Resize ==
    call.fn = "resizeGrid" =>
        /\ IsRectangle(Returned, call.height, call.width)
        /\ \A p \in Positions(call.height, call.width) :
              IF p[1] < Min(GridHeight(call.before), call.height)
                 /\ p[2] < Min(GridWidth(call.before), call.width)
              THEN At(Returned, p[1], p[2]) = At(call.before, p[1], p[2])
              ELSE At(Returned, p[1], p[2]) = deadCell

\* one axis grows while the other shrinks, a live cell is kept and one is cut
C12_Witness ==
    /\ call.fn = "resizeGrid"
    /\ call.height > GridHeight(call.before)
    /\ call.width < GridWidth(call.before)
    /\ At(call.before, 0, 0).age > 0
    /\ At(Returned, 0, 0) = At(call.before, 0, 0)
    /\ At(call.before, 0, GridWidth(call.before) - 1).age > 0

-----------------------------------------------------------------------------
(* C13: randomizeGrid(width, height, density, startingWealth, randomFn)    *)
(* returns a height x width grid, calls randomFn once per position, and    *)
(* the cell of a position is {1, startingWealth} exactly when the draw     *)
(* made for it is strictly less than density, dead otherwise; density 0    *)
(* gives an all-dead grid and density 1 an all-alive one.                  *)
C13_Randomize ==
    call.fn = "randomizeGrid" =>
        /\ IsRectangle(Returned, call.height, call.width)
        /\ call.calls = call.height * call.width
        /\ \A p \in Positions(call.height, call.width) :
              At(Returned, p[1], p[2]) =
                 IF call.draws[p[1] * call.width + p[2] + 1] < call.density
                 THEN [age |-> 1, wealth |-> call.startingWealth]
                 ELSE deadCell
        /\ call.density = 0 => ~HasAliveCells(Returned)
        /\ call.density = 10 =>
              \A p \in Positions(call.height, call.width) :
                 At(Returned, p[1], p[2]) = [age |-> 1, wealth |-> call.startingWealth]

\* density 0.3 and draws 0.2, 0.3: a live cell and a cell dead on the boundary
C13_Witness ==
    /\ call.fn = "randomizeGrid"
    /\ call.density = 3
    /\ Len(call.draws) >= 2
    /\ call.draws[1] = 2
    /\ call.draws[2] = 3
    /\ At(Returned, 0, 0).age = 1
    /\ \E p \in Positions(call.height, call.width) : At(Returned, p[1], p[2]) = deadCell

-----------------------------------------------------------------------------
(* The hook's current grid *)
Cells == heap[gridState.cells]

HookGridPositions == Positions(Len(Cells), Len(Cells[1]))

(* C14: cell invariant.  From an empty grid, after any sequence of step,   *)
(* toggleCell, setCell, resize, randomize, resetWealth and clear, every    *)
(* cell has age >= 0 and every cell of age 0 has wealth 0.                 *)
CellsWellFormed(cells) ==
    \A r \in 1..Len(cells) : \A c \in 1..Len(cells[r]) :
        /\ cells[r][c].age >= 0
        /\ cells[r][c].age = 0 => cells[r][c].wealth = 0

\* in the hook's runs, of the current grid; in the harness, of the grid a
\* function returns when given a grid of such cells
C14_CellInvariant ==
    /\ grid = 0 => CellsWellFormed(Cells)
    /\ (grid # 0 /\ call.fn \in {"computeNextGeneration", "toggleCell", "setCell",
                                 "resizeGrid", "randomizeGrid"}) =>
          (CellsWellFormed(call.before) => CellsWellFormed(Returned))

\* resetWealth has run on a grid with live and dead cells
C14_Witness ==
    /\ call.fn = "hook.resetWealth"
    /\ \E p \in HookGridPositions :
          /\ At(call.before, p[1], p[2]).age > 0
          /\ At(Cells, p[1], p[2]).wealth = 1
    /\ \E p \in HookGridPositions : At(Cells, p[1], p[2]) = deadCell

-----------------------------------------------------------------------------
(* C15: extinction.  From a grid whose only live cell is an isolated       *)
(* {age 1, wealth 10}, under the default rules, no cell is ever born;      *)
(* after k < 10 steps the cell is {1 + k, 10 - k}; it dies on the 10th     *)
(* step, and after that step the grid has no live cell and                 *)
(* simulationState is 'stopped'.                                           *)
C15_Extinction ==
    /\ wealthRules = <<-1, -3, -1, 1, -1, -2, -3>>
    /\ generation < 10 =>
          \E p \in HookGridPositions :
             /\ At(Cells, p[1], p[2]) = [age |-> 1 + generation,
                                         wealth |-> 10 - generation]
             /\ \A q \in HookGridPositions \ {p} : At(Cells, q[1], q[2]) = deadCell
    /\ generation >= 10 => ~HasAliveCells(Cells)
    /\ (generation >= 10 /\ call.fn \in {"hook.step", "hook.tick"}) =>
          simulationState = "stopped"
    /\ (generation = 10 /\ call.fn \in {"hook.step", "hook.tick"}) =>
          HasAliveCells(call.before)

\* the timer's tenth tick kills the cell and stops the simulation
C15_Witness ==
    /\ generation = 10
    /\ call.fn = "hook.tick"
    /\ call.prev.simulationState = "playing"
    /\ HasAliveCells(call.before)
    /\ ~HasAliveCells(Cells)
    /\ simulationState = "stopped"
    /\ timers = {}

-----------------------------------------------------------------------------
\* the last callback was a step, by hand or by the timer
Stepped == call.fn \in {"hook.step", "hook.tick"}

(* C16: auto-stop.  After a step, manual or timer-driven, whose resulting  *)
(* grid has no cell of age > 0, simulationState is 'stopped' whatever it   *)
(* was; after a step whose resulting grid has a live cell,                 *)
(* simulationState is what it was before the step.                         *)
C16_AutoStop ==
    Stepped =>
        IF HasAliveCells(Cells)
        THEN simulationState = call.prev.simulationState
        ELSE simulationState = "stopped"

\* a manual step while paused ends with an empty grid and stops
C16_Witness ==
    /\ call.fn = "hook.step"
    /\ call.prev.simulationState = "paused"
    /\ ~HasAliveCells(Cells)
    /\ simulationState = "stopped"

\* a timer-driven step that leaves a live cell goes on playing
C16_WitnessPlaying ==
    /\ call.fn = "hook.tick"
    /\ HasAliveCells(Cells)
    /\ simulationState = "playing"

-----------------------------------------------------------------------------
(* C17: serialized stepping.  At every moment at most one interval timer   *)
(* driving step is active, whatever was changed while playing; every step  *)
(* reads the grid the previous step or edit left, and what it leaves is    *)
(* one whole generation of that grid, never a mix of two.                  *)
StepReadsCurrentGrid ==
    Stepped' => (call'.grid = gridState.cells /\ call'.before = Cells)

C17_Serialized ==
    /\ [](/\ Cardinality(timers) <= 1
          /\ \A t \in timers : t.id = intervalRef
          /\ Stepped =>
                /\ gridState.cells = call.ret
                /\ Cells = computeNextGenerationCells(call.before, call.rules,
                                                      DEFAULT_STARTING_WEALTH))
    /\ [][StepReadsCurrentGrid]_vars

\* the speed was changed while playing: the timer was replaced, one is active
C17_Witness ==
    /\ call.fn = "hook.setSpeed"
    /\ call.prev.simulationState = "playing"
    /\ call.prev.speed # speed
    /\ Cardinality(timers) = 1
    /\ \A t \in timers : t.delay = speed

\* a timer tick after an edit reads the edited grid
C17_WitnessTick ==
    /\ call.fn = "hook.tick"
    /\ HasAliveCells(call.before)

-----------------------------------------------------------------------------
(* C18: pause stops the loop.  Once simulationState is 'paused' or         *)
(* 'stopped' and the loop effect has run, no timer is active and no        *)
(* timer-driven step occurs: the grid and the generation counter change    *)
(* only by play, a manual step or an edit.                                 *)
NoTickWhileNotPlaying ==
    simulationState \in {"paused", "stopped"} =>
        /\ call'.fn # "hook.tick"
        /\ call'.fn \in {"hook.pause", "hook.setSpeed", "hook.setWealthRules"} =>
              (gridState' = gridState /\ generation' = generation)

C18_PauseStopsLoop ==
    /\ [](simulationState \in {"paused", "stopped"} => timers = {})
    /\ [][NoTickWhileNotPlaying]_vars

\* paused after playing: the timer is gone
C18_Witness ==
    /\ call.fn = "hook.pause"
    /\ call.prev.simulationState = "playing"
    /\ simulationState = "paused"
    /\ timers = {}
    /\ intervalRef = Null

-----------------------------------------------------------------------------
(* C19: clear, from any state, playing included: afterwards                *)
(* simulationState is 'stopped', generation is 0, every cell is dead       *)
(* {0, 0}, and gridState.width and gridState.height are unchanged.         *)
C19_Clear ==
    call.fn = "hook.clear" =>
        /\ simulationState = "stopped"
        /\ generation = 0
        /\ gridState.width = call.prev.gridState.width
        /\ gridState.height = call.prev.gridState.height
        /\ IsRectangle(Cells, gridState.height, gridState.width)
        /\ \A p \in HookGridPositions : At(Cells, p[1], p[2]) = deadCell

\* clear while playing, after a step, with live cells on the grid
C19_Witness ==
    /\ call.fn = "hook.clear"
    /\ call.prev.simulationState = "playing"
    /\ call.prev.generation > 0
    /\ simulationState = "stopped"
    /\ generation = 0

\* clear of a grid with live cells
C19_WitnessAlive ==
    /\ call.fn = "hook.clear"
    /\ HasAliveCells(call.before)
    /\ ~HasAliveCells(Cells)

-----------------------------------------------------------------------------
(* C20: each step adds exactly 1 to the generation counter and replaces    *)
(* the cells by computeNextGeneration of the current cells under the       *)
(* current wealth rules, also when the grid is empty or the step ends in   *)
(* extinction.                                                             *)
C20_StepCounts ==
    Stepped =>
        /\ generation = call.prev.generation + 1
        /\ call.grid = call.prev.gridState.cells
        /\ call.fn = "hook.step" => call.rules = call.prev.wealthRules
        /\ gridState.cells = call.ret
        /\ Cells = computeNextGenerationCells(call.before, call.rules,
                                              DEFAULT_STARTING_WEALTH)
        /\ gridState.width = call.prev.gridState.width
        /\ gridState.height = call.prev.gridState.height

\* a second step in a row, on an empty grid
C20_Witness ==
    /\ call.fn = "hook.step"
    /\ ~HasAliveCells(call.before)
    /\ call.prev.generation = 1
    /\ generation = 2

-----------------------------------------------------------------------------
(* C21: resetWealth sets the wealth of every live cell to 1 and keeps its  *)
(* age; every dead cell stays {0, 0}; the grid dimensions do not change.   *)
C21_ResetWealth ==
    call.fn = "hook.resetWealth" =>
        /\ gridState.width = call.prev.gridState.width
        /\ gridState.height = call.prev.gridState.height
        /\ IsRectangle(Cells, GridHeight(call.before), GridWidth(call.before))
        /\ \A p \in CallPositions :
              LET old == At(call.before, p[1], p[2])
              IN IF old.age > 0
                 THEN At(Cells, p[1], p[2]) = [age |-> old.age, wealth |-> 1]
                 ELSE At(Cells, p[1], p[2]) = deadCell

\* resetWealth on a grid with a dead cell and a cell aged by a step
C21_Witness ==
    /\ call.fn = "hook.resetWealth"
    /\ \E p \in CallPositions :
          /\ At(call.before, p[1], p[2]).age > 1
          /\ At(call.before, p[1], p[2]).wealth # 1
          /\ At(Cells, p[1], p[2]).wealth = 1
    /\ \E p \in CallPositions : At(call.before, p[1], p[2]) = deadCell

-----------------------------------------------------------------------------
(* Properties of the hook mounted over localStorage.                       *)

Mounted == call.fn = "mount"

\* the state of a hook that found nothing to load
DefaultState ==
    /\ gridState.width = initialWidth
    /\ gridState.height = initialHeight
    /\ IsRectangle(Cells, initialHeight, initialWidth)
    /\ \A p \in Positions(initialHeight, initialWidth) :
          At(Cells, p[1], p[2]) = deadCell
    /\ wealthRules = defaultWealthRules
    /\ speed = 200
    /\ generation = 0
    /\ simulationState = "stopped"

\* nothing stored, a text that is no JSON, or a value the validation refuses
NotLoadable(item) ==
    item.type \in {"none", "invalid json"} \/ ~Validates(item)

\* grid and wealth rules are those of the record
GridAndRulesFrom(item) ==
    /\ gridState.width = JsValue(Get(Get(item, "gridState"), "width"))
    /\ gridState.height = JsValue(Get(Get(item, "gridState"), "height"))
    /\ Cells = JsValue(Get(Get(item, "gridState"), "cells"))
    /\ wealthRules = JsValue(Get(item, "wealthRules"))
    /\ generation = 0
    /\ simulationState = "stopped"

\* C22 as stated: a hook mounted over nothing, over a text that does not
\* parse or over a record that fails validation is in the default state; one
\* mounted over a record that passes validation has its grid, its wealth
\* rules and its speed from the record.
C22_AllFromRecord ==
    Mounted =>
        IF NotLoadable(call.stored)
        THEN DefaultState
        ELSE /\ GridAndRulesFrom(call.stored)
             /\ Get(call.stored, "speed").type = "number"
             /\ speed = Get(call.stored, "speed").num

\* C22 amended: as above, but the speed is the record's only when the record
\* holds one; a record that passes validation with no speed, or with a null
\* one, gives its grid and its rules and the default speed 200.  Grid and
\* rules are never mixed: both are the record's or both are the defaults.
C22_MountAllOrNothing ==
    Mounted =>
        IF NotLoadable(call.stored)
        THEN DefaultState
        ELSE /\ GridAndRulesFrom(call.stored)
             /\ IF Get(call.stored, "speed").type \in {"undefined", "null"}
                THEN speed = 200
                ELSE speed = JsValue(Get(call.stored, "speed"))

\* a record without speed was loaded: its rules and cells, speed 200
C22_Witness ==
    /\ Mounted
    /\ Validates(call.stored)
    /\ Get(call.stored, "speed").type = "undefined"
    /\ wealthRules = <<0, 0, 1, 1, 0, 0, 0>>
    /\ Cells = SavedCells
    /\ speed = 200

\* C23: after every change of the grid, the wealth rules or the speed the
\* stored record is the current (gridState, wealthRules, speed), and a hook
\* re-initialized from it has the same dimensions, cells, wealth rules and
\* speed as the hook that wrote it.
C23_RoundTrip ==
    /\ grid = 0 /\ Usable =>
          storage = JSONstringify(StoredState(gridState, Cells, wealthRules, speed))
    /\ Mounted /\ call.grid # 0 =>
          /\ gridState.width = call.prev.gridState.width
          /\ gridState.height = call.prev.gridState.height
          /\ Cells = call.before
          /\ wealthRules = call.prev.wealthRules
          /\ speed = call.prev.speed

\* what C30 calls well-formed for the core
WellFormedForCore(item) ==
    LET gs == Get(item, "gridState")
        cells == Get(gs, "cells")
        rules == Get(item, "wealthRules")
    IN /\ Get(gs, "width").type = "number"
       /\ Get(gs, "height").type = "number"
       /\ cells.type = "array"
       /\ Len(cells.items) = Get(gs, "height").num
       /\ \A r \in 1..Len(cells.items) :
             /\ cells.items[r].type = "array"
             /\ Len(cells.items[r].items) = Get(gs, "width").num
             /\ \A c \in 1..Len(cells.items[r].items) :
                   /\ Get(cells.items[r].items[c], "age").type = "number"
                   /\ Get(cells.items[r].items[c], "wealth").type = "number"
       /\ rules.type = "array"
       /\ Len(rules.items) = 7

\* C30: loadFromStorage accepts a record only if its cells are a rectangle of
\* gridState.height rows by gridState.width columns, every cell has a numeric
\* age and wealth, and wealthRules has exactly 7 entries; a hook mounted over
\* any other record is in the default state.
C30_OnlyWellFormedAccepted ==
    Mounted =>
        /\ Truthy(loadFromStorage(call.stored)) => WellFormedForCore(call.stored)
        /\ ~WellFormedForCore(call.stored) => DefaultState

\* C29: after any sequence of resize requests made through the width and
\* height inputs of Controls, the width and the height of the grid are each
\* between 5 and 150, so the grid has neither zero rows nor zero columns.
C29_SizeBounded ==
    grid = 0 =>
        /\ gridState.width \in SizeMin..SizeMax
        /\ gridState.height \in SizeMin..SizeMax
        /\ Len(Cells) > 0
        /\ \A r \in 1..Len(Cells) : Len(Cells[r]) > 0

\* the cell the last call was given at p had no rule entry for its count
RuleMissingAt(p) ==
    LiveNeighbours(call.before, p[1], p[2]) + 1 \notin DOMAIN call.rules

\* C26: a missing rule entry counts as a delta of 0.  Where the rule table
\* has no entry for a cell's neighbour count, a live cell keeps its wealth
\* and its age grows by one, and a dead cell stays dead.
C26_MissingRuleIsZero ==
    call.fn = "computeNextGeneration (short)" =>
        \A p \in CallPositions :
            RuleMissingAt(p) =>
                LET old == At(call.before, p[1], p[2])
                IN IF old.age > 0
                   THEN At(Returned, p[1], p[2]) =
                            [age |-> old.age + 1, wealth |-> old.wealth]
                   ELSE At(Returned, p[1], p[2]) = deadCell

\* a live cell and a dead cell with live neighbours, both without an entry,
\* beside a cell whose count has one
C26_Witness ==
    /\ call.fn = "computeNextGeneration (short)"
    /\ call.rules # <<>>
    /\ \E p \in CallPositions :
          RuleMissingAt(p) /\ At(call.before, p[1], p[2]).age > 0
    /\ \E p \in CallPositions :
          /\ RuleMissingAt(p)
          /\ At(call.before, p[1], p[2]).age = 0
          /\ LiveNeighbours(call.before, p[1], p[2]) > 0
    /\ \E p \in CallPositions : ~RuleMissingAt(p)

-----------------------------------------------------------------------------
(* C27: while 'playing' the timer drives the simulation.  With the timer   *)
(* firing for as long as it is active, the generation counter of a playing *)
(* simulation goes on growing until the simulation leaves 'playing' (the   *)
(* counter only ever grows by one, C20, so it has grown when it has gone   *)
(* from even to odd or from odd to even); a                                *)
(* playing simulation without a live cell reaches 'stopped'; and the lone  *)
(* cell of the extinction run, played with enough steps left for its ten   *)
(* generations, dies and leaves the simulation 'stopped'.                  *)
C27_TimerDrives ==
    /\ \A parity \in {0, 1} :
          (simulationState = "playing" /\ generation % 2 = parity /\ ops < MaxRun)
              ~> (generation % 2 # parity \/ simulationState # "playing")
    /\ (simulationState = "playing" /\ ~HasAliveCells(Cells) /\ ops < MaxRun)
          ~> (simulationState = "stopped")
    /\ (/\ simulationState = "playing"
        /\ HasAliveCells(Cells)
        /\ ops + (DEFAULT_STARTING_WEALTH - generation) <= MaxRun)
          ~> (simulationState = "stopped" /\ ~HasAliveCells(Cells))

\* the timer has driven a playing simulation for five generations
C27_Witness ==
    /\ call.fn = "hook.tick"
    /\ simulationState = "playing"
    /\ generation = 5
    /\ ops = 6

-----------------------------------------------------------------------------
(* C28: the simulation state machine.  simulationState is one of 'stopped', *)
(* 'paused' and 'playing' and starts as 'stopped'; play leaves it 'playing' *)
(* and pause leaves it 'paused', whatever it was before, 'stopped'          *)
(* included; and 'stopped' is entered only by clear or by a step that       *)
(* leaves no live cell.                                                     *)
C28_StateMachine ==
    grid = 0 =>
        /\ simulationState \in {"stopped", "paused", "playing"}
        /\ call.fn = "none" => simulationState = "stopped"
        /\ call.fn = "hook.play" => simulationState = "playing"
        /\ call.fn = "hook.pause" => simulationState = "paused"
        /\ (/\ call.fn # "none"
            /\ simulationState = "stopped"
            /\ call.prev.simulationState # "stopped")
               => \/ call.fn = "hook.clear"
                  \/ Stepped /\ ~HasAliveCells(Cells)

\* pause on a stopped simulation has left it paused
C28_Witness ==
    /\ call.fn = "hook.pause"
    /\ call.prev.simulationState = "stopped"
    /\ simulationState = "paused"

\* play on a playing simulation, and clear on a playing one
C28_WitnessPlay ==
    /\ call.fn = "hook.play"
    /\ call.prev.simulationState = "playing"
    /\ simulationState = "playing"

C28_WitnessClear ==
    /\ call.fn = "hook.clear"
    /\ call.prev.simulationState = "playing"
    /\ simulationState = "stopped"

-----------------------------------------------------------------------------
(* Properties of the wealth rules popup.                                   *)

PopupEdited == call.fn \in {"popup.change", "popup.preset", "popup.reset"}

\* C24: the commit protocol of the rules popup.  A slider, a preset and
\* Reset change the popup's local copy only, and leave the popup open; the
\* hook's wealthRules change on Save only, which hands the local rules to
\* onSave and closes the popup; Cancel and a click on the overlay close it
\* with wealthRules (and what is stored) as they were.
C24_CommitProtocol ==
    call.fn \in {"popup.open", "popup.change", "popup.preset", "popup.reset",
                 "popup.save", "popup.close"} =>
        /\ call.fn # "popup.save" =>
              /\ wealthRules = call.prev.wealthRules
              /\ storage = JSONstringify(StoredState(gridState, Cells,
                                                     call.prev.wealthRules, speed))
        /\ call.fn = "popup.open" =>
              popup = [open |-> TRUE, localRules |-> wealthRules]
        /\ PopupEdited => popup.open
        /\ call.fn = "popup.change" =>
              /\ popup.localRules[call.index + 1] = call.slider
              /\ \A i \in 1..7 :
                    i # call.index + 1 => popup.localRules[i] = call.localRules[i]
        /\ call.fn = "popup.preset" => popup.localRules = call.rules
        /\ call.fn = "popup.reset" => popup.localRules = defaultWealthRules
        /\ call.fn = "popup.save" =>
              /\ wealthRules = call.localRules
              /\ ~popup.open
              /\ storage = JSONstringify(StoredState(gridState, Cells,
                                                     call.localRules, speed))
        /\ call.fn = "popup.close" => ~popup.open

\* edited local rules were saved: they are the hook's rules now, and were not
\* before
C24_Witness ==
    /\ call.fn = "popup.save"
    /\ call.localRules # call.prev.wealthRules
    /\ wealthRules = call.localRules
    /\ ~popup.open

\* edited local rules were given up
C24_WitnessCancel ==
    /\ call.fn = "popup.close"
    /\ call.localRules # call.prev.wealthRules
    /\ wealthRules = call.prev.wealthRules

\* C25: the wealth rule table always has exactly 7 entries: the hook's, from
\* the defaults or from an accepted stored record, and the popup's local
\* copy after any slider, preset, Reset or Save.
C25_SevenRules ==
    grid = 0 =>
        /\ Len(wealthRules) = 7
        /\ popup.open => Len(popup.localRules) = 7

\* rules of a stored record, edited by a slider and saved
C25_Witness ==
    /\ call.fn = "popup.save"
    /\ \E i \in 1..7 :
          /\ wealthRules[i] # <<0, 0, 1, 1, 0, 0, 0>>[i]
          /\ \A j \in (1..7) \ {i} : wealthRules[j] = <<0, 0, 1, 1, 0, 0, 0>>[j]

-----------------------------------------------------------------------------
(* C31: hex adjacency is symmetric.  For in-bounds positions p and q of a  *)
(* grid, q is among getNeighborPositions(p) exactly when p is among        *)
(* getNeighborPositions(q), rows of different parity included, and p is    *)
(* never among its own neighbours.                                         *)
C31_Symmetric ==
    call.fn = "getNeighborPositions" =>
        LET p == [row |-> call.row, col |-> call.col]
        IN /\ p \notin SeqToSet(call.ret)
           /\ \A t \in Positions(call.height, call.width) :
                 LET q == [row |-> t[1], col |-> t[2]]
                 IN q \in SeqToSet(call.ret)
                       <=> p \in SeqToSet(getNeighborPositions(q.row, q.col,
                                                              call.height, call.width))

\* a centre in an odd row with a neighbour in an even row above and a
\* neighbour in an even row below
C31_Witness ==
    /\ call.fn = "getNeighborPositions"
    /\ call.row = 1
    /\ \E i, j \in 1..Len(call.ret) :
          /\ call.ret[i].row = 0
          /\ call.ret[j].row = 2

-----------------------------------------------------------------------------
(* C32: live cells hold positive wealth.  From the fresh default state,    *)
(* after any sequence of hook operations, every cell with age > 0 has      *)
(* wealth >= 1.                                                            *)
C32_LiveCellsHaveWealth ==
    grid = 0 =>
        \A r \in 1..Len(Cells) : \A c \in 1..Len(Cells[r]) :
            Cells[r][c].age > 0 => Cells[r][c].wealth >= 1

\* a step has cost a live cell wealth and left it alive
C32_Witness ==
    /\ Stepped
    /\ \E p \in HookGridPositions :
          /\ At(call.before, p[1], p[2]).age > 0
          /\ At(Cells, p[1], p[2]).age > 0
          /\ At(Cells, p[1], p[2]).wealth < At(call.before, p[1], p[2]).wealth

-----------------------------------------------------------------------------
(* C33: age counts generations alive.  A step gives a surviving cell its   *)
(* age plus one and a born cell age 1; toggleCell and setCell give the     *)
(* cell they activate age 1 and leave the age of every other live cell;    *)
(* randomize makes live cells of age 1; resize and resetWealth leave the   *)
(* age of every cell they keep.  So a live cell's age is 1 plus the steps  *)
(* it survived since it was made, and from the fresh default state every   *)
(* cell has age <= generation + 1.                                         *)
C33_AgeCounts ==
    grid = 0 =>
        /\ \A r \in 1..Len(Cells) : \A c \in 1..Len(Cells[r]) :
              Cells[r][c].age <= generation + 1
        /\ Stepped =>
              \A p \in CallPositions :
                  At(Cells, p[1], p[2]).age > 0 =>
                      At(Cells, p[1], p[2]).age =
                          IF At(call.before, p[1], p[2]).age > 0
                          THEN At(call.before, p[1], p[2]).age + 1
                          ELSE 1
        /\ call.fn \in {"hook.toggleCell", "hook.setCell"} =>
              \A p \in CallPositions :
                  At(Cells, p[1], p[2]).age > 0 =>
                      IF At(call.before, p[1], p[2]).age > 0
                      THEN At(Cells, p[1], p[2]).age = At(call.before, p[1], p[2]).age
                      ELSE p = <<call.row, call.col>> /\ At(Cells, p[1], p[2]).age = 1
        /\ call.fn = "hook.randomize" =>
              \A p \in HookGridPositions : At(Cells, p[1], p[2]).age \in {0, 1}
        /\ call.fn = "hook.resize" =>
              \A p \in HookGridPositions :
                  At(Cells, p[1], p[2]).age =
                      IF p \in CallPositions THEN At(call.before, p[1], p[2]).age ELSE 0
        /\ call.fn = "hook.resetWealth" =>
              \A p \in CallPositions :
                  At(Cells, p[1], p[2]).age = At(call.before, p[1], p[2]).age

\* a cell made before the first step has survived two steps: age 3 at
\* generation 2
C33_Witness ==
    /\ Stepped
    /\ generation = 2
    /\ \E p \in HookGridPositions : At(Cells, p[1], p[2]).age = 3

-----------------------------------------------------------------------------
(* C34: the recorded dimensions match the cells.  From the fresh default   *)
(* state, after any sequence of step, toggleCell, setCell, resize,         *)
(* randomize, resetWealth and clear, gridState.height is the number of     *)
(* rows of cells and gridState.width is the length of every row.           *)
C34_DimensionsMatch ==
    grid = 0 =>
        /\ gridState.height = Len(Cells)
        /\ \A r \in 1..Len(Cells) : gridState.width = Len(Cells[r])

\* a resize has changed both dimensions
C34_Witness ==
    /\ call.fn = "hook.resize"
    /\ gridState.width = call.width
    /\ gridState.height = call.height
    /\ gridState.width # call.prev.gridState.width
    /\ gridState.height # call.prev.gridState.height

-----------------------------------------------------------------------------
(* C35: edits leave the driver state alone.  toggleCell, setCell, resize,  *)
(* randomize and resetWealth change only gridState: simulationState, the   *)
(* generation counter, wealthRules and speed are as before, and so is the  *)
(* running timer, so an edit while playing neither pauses the simulation   *)
(* nor resets the generation counter.                                      *)
EditCallbacks ==
    {"hook.toggleCell", "hook.setCell", "hook.resize", "hook.randomize",
     "hook.resetWealth"}

C35_EditsLeaveDriver ==
    [][(ops' # ops /\ call'.fn \in EditCallbacks)
          => UNCHANGED <<simulationState, generation, wealthRules, speed,
                         intervalRef, timers>>]_vars

\* a cell has been edited while the simulation plays at a generation past 0
C35_Witness ==
    /\ call.fn \in EditCallbacks
    /\ gridState.cells # call.prev.gridState.cells
    /\ simulationState = "playing"
    /\ intervalRef # Null
    /\ generation > 0

-----------------------------------------------------------------------------
(* C36: no births without a profitable rule.  When no entry of the rule    *)
(* table is positive, a step makes no dead cell alive: the positions alive *)
(* after the step were alive before it.  And whenever rules[0] <= 0 the    *)
(* empty grid steps to the empty grid.                                     *)
NoPositiveEntry(rules) == \A i \in 1..Len(rules) : rules[i] <= 0

C36_NoBirths ==
    Stepped =>
        /\ NoPositiveEntry(call.rules)
              => \A p \in HookGridPositions :
                    At(Cells, p[1], p[2]).age > 0
                        => At(call.before, p[1], p[2]).age > 0
        /\ (call.rules[1] <= 0 /\ ~HasAliveCells(call.before))
              => ~HasAliveCells(Cells)

\* a step under a table without a positive entry, one of whose entries is 0,
\* has left a dead cell with live neighbours dead and a live cell alive
C36_Witness ==
    /\ Stepped
    /\ NoPositiveEntry(call.rules)
    /\ \E i \in 1..Len(call.rules) : call.rules[i] = 0
    /\ HasAliveCells(Cells)
    /\ \E p \in HookGridPositions :
          /\ At(call.before, p[1], p[2]).age = 0
          /\ LiveNeighbours(call.before, p[1], p[2]) > 0
          /\ DeltaAt(p) = 0
          /\ At(Cells, p[1], p[2]).age = 0

-----------------------------------------------------------------------------
(* C37: guaranteed extinction under all-negative rules.  When every entry  *)
(* of the rule table is negative, stepping a grid whose richest live cell  *)
(* has wealth w, with no edit in between, leaves no live cell from the     *)
(* w-th step on; and with the timer firing for as long as it is active, a  *)
(* playing simulation with enough callbacks left for those steps becomes   *)
(* 'stopped' with an all-dead grid.                                        *)
AllNegative(rules) == \A i \in 1..Len(rules) : rules[i] < 0

\* the largest wealth of a live cell, 0 when no cell is alive
LargestWealth(cells) ==
    LET wealths == { cells[r][c].wealth :
                       r \in 1..Len(cells), c \in 1..Len(cells[1]) }
    IN CHOOSE w \in wealths \cup {0} : \A v \in wealths : v <= w

\* the wealth a live cell had when the run of the decline began: no cell is
\* born under such rules (C36), so a live cell has aged by one with every
\* step and is one the run began with, an oldCell or a fresh cell
StartingWealthAt(p) ==
    IF At(Cells, p[1], p[2]).age - generation = oldCell.age
    THEN oldCell.wealth
    ELSE GradedWealth(p[1], p[2])

\* a cell alive after g steps began with a wealth above g, so that none is
\* alive once the steps are as many as the largest wealth at the start
C37_Extinction ==
    /\ [](AllNegative(wealthRules)
            => \A p \in HookGridPositions :
                  At(Cells, p[1], p[2]).age > 0 => generation < StartingWealthAt(p))
    /\ (/\ simulationState = "playing"
        /\ AllNegative(wealthRules)
        /\ ops < MaxDecline
        /\ ops + LargestWealth(Cells) <= MaxDecline)
          ~> (simulationState = "stopped" /\ ~HasAliveCells(Cells))

\* the timer's third step has killed a cell that began with wealth 3 and
\* stopped the playing simulation
C37_Witness ==
    /\ call.fn = "hook.tick"
    /\ AllNegative(call.rules)
    /\ generation = 3
    /\ call.prev.simulationState = "playing"
    /\ simulationState = "stopped"
    /\ ~HasAliveCells(Cells)
    /\ \E p \in HookGridPositions :
          /\ At(call.before, p[1], p[2]).age = 3
          /\ At(call.before, p[1], p[2]).wealth = 1

-----------------------------------------------------------------------------
(* C38: toggling the same cell twice.  Every cell is alive after the two   *)
(* calls exactly when it was before them, and every cell but the target    *)
(* is as it was.  A target that was dead, or was {age 1, wealth            *)
(* startingWealth}, is as it was too, so the grid content is restored; a   *)
(* live target of any other age or wealth is left as {age 1, wealth        *)
(* startingWealth}, its age and wealth lost.                               *)
C38_DoubleToggle ==
    call.fn = "toggleCell twice" =>
        LET target == At(call.before, call.row, call.col)
            fresh == [age |-> 1, wealth |-> call.startingWealth]
        IN /\ \A p \in CallPositions :
                 /\ At(Returned, p[1], p[2]).age > 0
                       <=> At(call.before, p[1], p[2]).age > 0
                 /\ p # <<call.row, call.col>>
                       => At(Returned, p[1], p[2]) = At(call.before, p[1], p[2])
           /\ IF target.age = 0 \/ target = fresh
              THEN Returned = call.before
              ELSE /\ At(Returned, call.row, call.col) = fresh
                   /\ Returned # call.before

\* an aged cell has been toggled twice and is a fresh cell now
C38_Witness ==
    /\ call.fn = "toggleCell twice"
    /\ At(call.before, call.row, call.col) = oldCell
    /\ At(Returned, call.row, call.col) = [age |-> 1, wealth |-> call.startingWealth]
    /\ \E p \in CallPositions :
          p # <<call.row, call.col>> /\ At(Returned, p[1], p[2]) = oldCell

\* a dead cell has been toggled twice and the grid is as it was
C38_WitnessRestored ==
    /\ call.fn = "toggleCell twice"
    /\ At(call.before, call.row, call.col).age = 0
    /\ Returned = call.before

-----------------------------------------------------------------------------
(* C39: rule changes take effect at the next step.  setWealthRules(R)      *)
(* leaves R as the hook's rule table and the grid and the generation       *)
(* counter as they were; every step after it, by hand or by the timer      *)
(* while playing, is computed with the table last set and no older one:    *)
(* the step callback of every active timer holds the current table.        *)
C39_RulesTakeEffect ==
    grid = 0 =>
        /\ \A t \in timers : t.rules = wealthRules
        /\ Stepped =>
              /\ call.rules = call.prev.wealthRules
              /\ wealthRules = call.prev.wealthRules
              /\ Cells = computeNextGenerationCells(call.before, call.prev.wealthRules,
                                                    DEFAULT_STARTING_WEALTH)
        /\ call.fn = "hook.setWealthRules" =>
              /\ wealthRules = call.rules
              /\ gridState = call.prev.gridState
              /\ Cells = call.before
              /\ generation = call.prev.generation

\* the timer, started under the default table, has stepped a playing
\* simulation with the table set since, to a grid the default table would
\* not have given
C39_Witness ==
    /\ call.fn = "hook.tick"
    /\ call.prev.simulationState = "playing"
    /\ call.rules # defaultWealthRules
    /\ ops = 3
    /\ HasAliveCells(Cells)
    /\ Cells # computeNextGenerationCells(call.before, defaultWealthRules,
                                          DEFAULT_STARTING_WEALTH)

-----------------------------------------------------------------------------
(* C40: drag drawing paints one state.  A mouse-down on a cell toggles     *)
(* that cell and sets the draw mode to the negation of the alive-state     *)
(* the cell had; from then until the next mouse-up or mouse-leave, a mouse *)
(* move onto a cell other than the last one visited issues setCell(cell,   *)
(* drawMode) and every other mouse move issues nothing; with no drag in    *)
(* progress a mouse move issues nothing.  So every cell visited since a    *)
(* mouse-down has the alive-state that mouse-down toggled its cell to,     *)
(* during the drag and after it.                                           *)
AliveAt(cells, p) == At(cells, p[1], p[2]).age > 0

\* the grid content with the alive-state of p made value, as setCell leaves it
Painted(cells, p, value) ==
    IF AliveAt(cells, p) = value
    THEN cells
    ELSE Put(cells, p[1], p[2],
             IF value THEN createAliveCell(DEFAULT_STARTING_WEALTH)
             ELSE createEmptyCell)

\* the cell of the mouse event the step is, or none
EventCell == IF call'.row < 0 THEN NoValue ELSE <<call'.row, call'.col>>

MouseDownToggles ==
    (ops' # ops /\ call'.fn = "mouseDown" /\ EventCell # NoValue) =>
        /\ AliveAt(Cells', EventCell) = ~AliveAt(Cells, EventCell)
        /\ \A p \in HookGridPositions \ {EventCell} :
              At(Cells', p[1], p[2]) = At(Cells, p[1], p[2])
        /\ hexGrid'.isDrawing
        /\ hexGrid'.drawMode = <<~AliveAt(Cells, EventCell)>>
        /\ hexGrid'.lastCell = EventCell

MouseMovePaints ==
    (ops' # ops /\ call'.fn = "mouseMove") =>
        IF hexGrid.isDrawing /\ EventCell # NoValue /\ EventCell # hexGrid.lastCell
        THEN /\ call'.calls = 1
             /\ Cells' = Painted(Cells, EventCell, hexGrid.drawMode[1])
             /\ hexGrid'.lastCell = EventCell
             /\ hexGrid'.drawMode = hexGrid.drawMode
             /\ hexGrid'.isDrawing
        ELSE /\ call'.calls = 0
             /\ gridState' = gridState
             /\ Cells' = Cells
             /\ hexGrid'.lastCell = hexGrid.lastCell
             /\ hexGrid'.drawMode = hexGrid.drawMode
             /\ hexGrid'.isDrawing = hexGrid.isDrawing

MouseUpEnds ==
    (ops' # ops /\ call'.fn \in {"mouseUp", "mouseLeave"}) =>
        /\ ~hexGrid'.isDrawing
        /\ hexGrid'.drawMode = NoValue
        /\ Cells' = Cells

C40_DragPaintsOneState ==
    /\ [][MouseDownToggles /\ MouseMovePaints /\ MouseUpEnds]_vars
    /\ [](/\ \A p \in call.visited : AliveAt(Cells, p) = call.value
          /\ hexGrid.isDrawing <=> hexGrid.drawMode # NoValue
          /\ hexGrid.isDrawing => hexGrid.drawMode = <<call.value>>)

\* a drag that began on a dead cell has crossed a dead cell and a live one
\* and ended: the three are alive
C40_Witness ==
    /\ call.fn = "mouseUp"
    /\ call.value = TRUE
    /\ Cardinality(call.visited) = 3
    /\ \A p \in call.visited : AliveAt(Cells, p)
    /\ ~hexGrid.isDrawing
    /\ call.prev.gridState = gridState

\* a drag that began on a live cell erases: it has made a live cell dead
C40_WitnessErase ==
    /\ call.fn = "mouseMove"
    /\ call.calls = 1
    /\ call.value = FALSE
    /\ AliveAt(call.before, <<call.row, call.col>>)
    /\ ~AliveAt(Cells, <<call.row, call.col>>)

=============================================================================
